---- MODULE Spec2Model ----
(***************************************************************************)
(* State-machine model of RTC::Peer (worker/src/RTC/Peer.cpp): the entity  *)
(* registry (transports / producers / consumers), the request dispatcher,  *)
(* the close cascades, the SSRC lookup, the dispatch of received RTCP and  *)
(* the RTCP timer.                                                         *)
(*                                                                         *)
(* Every handler of Peer runs to completion on one thread, so each handler *)
(* is one action.  Handlers are written as operators from a state record   *)
(* to a state record so that nested calls (Destroy -> Producer::Destroy -> *)
(* OnProducerClosed) compose the way the calls do in the code.  The field  *)
(* `calls` of the record is the sequence of outgoing calls the handler     *)
(* made (request replies, Room up-calls, notifications, calls on owned     *)
(* entities), in program order; it is reset at the start of each handler.  *)
(*                                                                         *)
(* The maps are std::unordered_map, whose iteration order the language     *)
(* leaves unspecified.  With libstdc++ a new element whose bucket is empty *)
(* is linked at the front of the element list, and the ids modelled have   *)
(* a bucket each, so a loop over a map visits the newest entry first.  The *)
(* fields torder, porder and corder hold that order.                       *)
(***************************************************************************)
EXTENDS Integers, Sequences, FiniteSets

\* ------------------------------------------------------------------ bounds
\* The ids the Channel and the Room use for the entities of this Peer: two of
\* each kind, so that an entity can be rebound, closed and created again
\* while another of its kind stays.
TransportIds == {1, 2}
ProducerIds == {1, 2}
ConsumerIds == {1, 2}

\* The most Transports, Producers and Consumers the environment keeps alive
\* in the Peer at once.
MaxLive == 4

\* A null Transport pointer.
NullTransport == 0
\* A JSON value in request.internal that is not an unsigned integer.
NotUInt == -1

\* RTC::RTCP::MaxVideoIntervalMs (RTC/RTCP/Packet.hpp), used at Peer.cpp:26,1165.
MaxVideoIntervalMs == 1000

\* The SSRC values that occur in RTP parameters and in received RTCP.
Ssrcs == {1, 2, 3}

\* One RtpEncodingParameters: the primary ssrc, and the FEC and RTX ssrc with
\* their presence flags.
Enc(ssrc, hasFec, fec, hasRtx, rtx) ==
    [ssrc |-> ssrc, hasFec |-> hasFec, fec |-> fec, hasRtx |-> hasRtx, rtx |-> rtx]

\* Consumer::GetParameters(): has is FALSE for the null pointer.
Params(encodings) == [has |-> TRUE, encodings |-> encodings]
NoParams == [has |-> FALSE, encodings |-> <<>>]

VARIABLES
    transports,       \* this->transports: ids of the stored Transport pointers
    producers,        \* this->producers: ids of the stored Producer pointers
    consumers,        \* this->consumers: ids of the stored Consumer pointers
    hasCapabilities,  \* this->hasCapabilities
    capabilities,     \* this->capabilities (set of codec names)
    ptrans,           \* Producer::transport of each Producer (NullTransport if unset)
    pkind,            \* Producer::kind
    ctrans,           \* Consumer::transport of each Consumer
    ckind,            \* Consumer::kind
    cparams,          \* Consumer::GetParameters() (NoParams if none were sent)
    cactive,          \* Consumer::GetActive()
    roomPending,      \* Room: Consumers to add once the Peer has capabilities
    remb,             \* Transport::HasRemb() of each Transport
    tprod,            \* Producers registered in each Transport (AddProducer/RemoveProducer)
    heapT,            \* Transport objects constructed and not yet deleted
    heapP,            \* Producer objects constructed and not yet deleted
    heapC,            \* Consumer objects constructed and not yet deleted
    timerRunning,     \* the RTCP Timer exists and is armed
    closed,           \* the Peer has been deleted (Destroy ran)
    crashed,          \* an MS_ASSERT failed (process aborted)
    handler,          \* the entry point of Peer that ran last
    calls,            \* outgoing calls of the last handler, in program order
    torder,           \* the order in which a loop walks this->transports
    porder,           \* the order in which a loop walks this->producers
    corder            \* the order in which a loop walks this->consumers

vars == <<transports, producers, consumers, torder, porder, corder,
          hasCapabilities, capabilities,
          ptrans, pkind, ctrans, ckind, cparams, cactive, roomPending, remb,
          tprod, heapT, heapP, heapC, timerRunning, closed, crashed, handler,
          calls>>

\* The state as one record, so that handlers compose.
St ==
    [transports |-> transports, producers |-> producers, consumers |-> consumers,
     torder |-> torder, porder |-> porder, corder |-> corder,
     hasCapabilities |-> hasCapabilities, capabilities |-> capabilities,
     ptrans |-> ptrans, pkind |-> pkind, ctrans |-> ctrans, ckind |-> ckind,
     cparams |-> cparams, cactive |-> cactive, roomPending |-> roomPending,
     remb |-> remb, tprod |-> tprod, heapT |-> heapT, heapP |-> heapP,
     heapC |-> heapC, timerRunning |-> timerRunning, closed |-> closed,
     crashed |-> crashed, handler |-> handler, calls |-> calls]

Becomes(s) ==
    /\ transports' = s.transports
    /\ producers' = s.producers
    /\ consumers' = s.consumers
    /\ torder' = s.torder
    /\ porder' = s.porder
    /\ corder' = s.corder
    /\ hasCapabilities' = s.hasCapabilities
    /\ capabilities' = s.capabilities
    /\ ptrans' = s.ptrans
    /\ pkind' = s.pkind
    /\ ctrans' = s.ctrans
    /\ ckind' = s.ckind
    /\ cparams' = s.cparams
    /\ cactive' = s.cactive
    /\ roomPending' = s.roomPending
    /\ remb' = s.remb
    /\ tprod' = s.tprod
    /\ heapT' = s.heapT
    /\ heapP' = s.heapP
    /\ heapC' = s.heapC
    /\ timerRunning' = s.timerRunning
    /\ closed' = s.closed
    /\ crashed' = s.crashed
    /\ handler' = s.handler
    /\ calls' = s.calls

\* ----------------------------------------------------------- outgoing calls
\* One outgoing call: c names the callee, a and b are id arguments (0 when
\* unused), s is a string argument ("" when unused).
Call(c, a, b, s) == [c |-> c, a |-> a, b |-> b, s |-> s, sr |-> 0, rr |-> 0]

Log(s, call) == [s EXCEPT !.calls = Append(@, call)]

Accept(s) == Log(s, Call("Accept", 0, 0, ""))
Reject(s, reason) == Log(s, Call("Reject", 0, 0, reason))
\* MS_THROW_ERROR outside any try block: the error leaves the handler.
Throw(s, reason) == Log(s, Call("Throw", 0, 0, reason))

\* Entry into handler h: the log of outgoing calls starts empty.
Begin(s, h) == [s EXCEPT !.handler = h, !.calls = <<>>]

RECURSIVE SetToSeq(_)
SetToSeq(S) ==
    IF S = {} THEN <<>>
    ELSE LET m == CHOOSE x \in S : \A y \in S : x <= y
         IN <<m>> \o SetToSeq(S \ {m})

CountCalls(cs, c) == Cardinality({i \in 1..Len(cs) : cs[i].c = c})

\* A call on an object that has already been deleted is marked in the log.
Mark(heap, id) == IF id \in heap THEN "" ELSE "use-after-free"

\* map[id] = entry: a new key is walked first; an existing key keeps its place.
MapInsert(order, id) ==
    IF \E i \in 1..Len(order) : order[i] = id THEN order ELSE <<id>> \o order

\* map.erase(id)
MapErase(order, id) == SelectSeq(order, LAMBDA x : x # id)

\* ------------------------------------------------ owned entities (callees)
\* Transport::AddProducer(producer), when it does not throw.
TransportAddProducer(s, t, p) ==
    Log([s EXCEPT !.tprod[t] = @ \cup {p}],
        Call("Transport::AddProducer", t, p, Mark(s.heapT, t)))

\* Transport::RemoveProducer(producer).
TransportRemoveProducer(s, t, p) ==
    Log([s EXCEPT !.tprod[t] = @ \ {p}],
        Call("Transport::RemoveProducer", t, p, Mark(s.heapT, t)))

\* Transport::EnableRemb().
TransportEnableRemb(s, t) ==
    Log([s EXCEPT !.remb[t] = TRUE],
        Call("Transport::EnableRemb", t, 0, Mark(s.heapT, t)))

\* Producer::SetTransport(transport).
ProducerSetTransport(s, p, t) ==
    Log([s EXCEPT !.ptrans[p] = t],
        Call("Producer::SetTransport", p, t, Mark(s.heapP, p)))

\* Producer::RemoveTransport(transport): clears the reference if it is this one.
ProducerRemoveTransport(s, p, t) ==
    IF s.ptrans[p] = t THEN [s EXCEPT !.ptrans[p] = NullTransport] ELSE s

\* Consumer::SetTransport(transport).
ConsumerSetTransport(s, c, t) ==
    Log([s EXCEPT !.ctrans[c] = t],
        Call("Consumer::SetTransport", c, t, Mark(s.heapC, c)))

\* Consumer::RemoveTransport(transport).
ConsumerRemoveTransport(s, c, t) ==
    IF s.ctrans[c] = t THEN [s EXCEPT !.ctrans[c] = NullTransport] ELSE s

\* ------------------------------------------------- Peer: close up-calls
RECURSIVE RemoveProducerFromAll(_, _, _)
RemoveProducerFromAll(s, ts, p) ==
    IF ts = <<>> THEN s
    ELSE RemoveProducerFromAll(TransportRemoveProducer(s, Head(ts), p), Tail(ts), p)

\* Peer::OnProducerClosed, without the erase from the map.
OnProducerClosedKeep(s, p) ==
    Log(RemoveProducerFromAll(s, s.torder, p),
        Call("OnPeerProducerClosed", p, 0, ""))

\* Peer::OnProducerClosed(producer).
OnProducerClosed(s, p) ==
    LET s1 == RemoveProducerFromAll(s, s.torder, p)
        s2 == [s1 EXCEPT !.producers = @ \ {p}, !.porder = MapErase(@, p)]
    IN Log(s2, Call("OnPeerProducerClosed", p, 0, ""))

\* Peer::OnConsumerClosed(consumer).
OnConsumerClosed(s, c) ==
    Log([s EXCEPT !.consumers = @ \ {c}, !.corder = MapErase(@, c)],
        Call("OnPeerConsumerClosed", c, 0, ""))

RECURSIVE RemoveTransportFromProducers(_, _, _)
RemoveTransportFromProducers(s, ps, t) ==
    IF ps = <<>> THEN s
    ELSE RemoveTransportFromProducers(ProducerRemoveTransport(s, Head(ps), t), Tail(ps), t)

RECURSIVE RemoveTransportFromConsumers(_, _, _)
RemoveTransportFromConsumers(s, cs, t) ==
    IF cs = <<>> THEN s
    ELSE RemoveTransportFromConsumers(ConsumerRemoveTransport(s, Head(cs), t), Tail(cs), t)

\* Peer::OnTransportClosed that leaves the Transport in the map.
OnTransportClosedNoErase(s, t) ==
    LET s1 == RemoveTransportFromProducers(s, s.porder, t)
    IN RemoveTransportFromConsumers(s1, s1.corder, t)

\* Peer::OnTransportClosed that forgets the Consumers.
OnTransportClosedSkipConsumers(s, t) ==
    LET s1 == RemoveTransportFromProducers(s, s.porder, t)
    IN [s1 EXCEPT !.transports = @ \ {t}, !.torder = MapErase(@, t)]

\* Peer::OnTransportClosed(transport).
OnTransportClosed(s, t) ==
    LET s1 == RemoveTransportFromProducers(s, s.porder, t)
        s2 == RemoveTransportFromConsumers(s1, s1.corder, t)
    IN [s2 EXCEPT !.transports = @ \ {t}, !.torder = MapErase(@, t)]

\* ------------------------------------------- owned entities: destruction
\* Producer::Destroy(): raises the close event into the Peer, then deletes itself.
ProducerDestroy(s, p) ==
    LET s1 == Log(s, Call("Producer::Destroy", p, 0, Mark(s.heapP, p)))
        s2 == OnProducerClosed(s1, p)
    IN [s2 EXCEPT !.heapP = @ \ {p}, !.ptrans[p] = NullTransport, !.pkind[p] = "NONE"]

\* Consumer::Destroy().
ConsumerDestroy(s, c) ==
    LET s1 == Log(s, Call("Consumer::Destroy", c, 0, Mark(s.heapC, c)))
        s2 == OnConsumerClosed(s1, c)
    IN [s2 EXCEPT !.heapC = @ \ {c}, !.ctrans[c] = NullTransport, !.ckind[c] = "NONE",
                  !.cparams[c] = NoParams, !.cactive[c] = FALSE]

\* Transport::Destroy().
TransportDestroy(s, t) ==
    LET s1 == Log(s, Call("Transport::Destroy", t, 0, Mark(s.heapT, t)))
        s2 == OnTransportClosed(s1, t)
    IN [s2 EXCEPT !.heapT = @ \ {t}, !.remb[t] = FALSE, !.tprod[t] = {}]

\* ------------------------------------------------------- Peer::Destroy
RECURSIVE DestroyProducers(_)
DestroyProducers(s) ==
    IF s.producers = {} THEN s
    ELSE LET p == Head(s.porder)
             erased == [s EXCEPT !.producers = @ \ {p}, !.porder = MapErase(@, p)]
         IN DestroyProducers(ProducerDestroy(erased, p))

RECURSIVE DestroyConsumers(_)
DestroyConsumers(s) ==
    IF s.consumers = {} THEN s
    ELSE LET c == Head(s.corder)
             erased == [s EXCEPT !.consumers = @ \ {c}, !.corder = MapErase(@, c)]
         IN DestroyConsumers(ConsumerDestroy(erased, c))

RECURSIVE DestroyTransports(_)
DestroyTransports(s) ==
    IF s.transports = {} THEN s
    ELSE LET t == Head(s.torder)
             erased == [s EXCEPT !.transports = @ \ {t}, !.torder = MapErase(@, t)]
         IN DestroyTransports(TransportDestroy(erased, t))

\* Peer::~Peer that leaves the timer armed.
PeerDestructorKeepTimer(s) == [s EXCEPT !.closed = TRUE]

\* Peer::~Peer(): destroys the RTCP timer.
PeerDestructor(s) == [s EXCEPT !.timerRunning = FALSE, !.closed = TRUE]

\* Peer::Destroy with the Transports closed before the Producers and Consumers.
DestroyTransportsFirst(s) ==
    LET s1 == DestroyTransports(s)
        s2 == DestroyProducers(s1)
        s3 == DestroyConsumers(s2)
        s4 == Log(s3, Call("Emit", 0, 0, "close"))
        s5 == Log(s4, Call("OnPeerClosed", 0, 0, ""))
    IN PeerDestructor(s5)

\* Peer::Destroy().
Destroy(s) ==
    LET s1 == DestroyProducers(s)
        s2 == DestroyConsumers(s1)
        s3 == DestroyTransports(s2)
        s4 == Log(s3, Call("Emit", 0, 0, "close"))
        s5 == Log(s4, Call("OnPeerClosed", 0, 0, ""))
    IN PeerDestructor(s5)

\* Peer::ToJson(): the ids of the dumped transports, producers and consumers.
ToJson(s) ==
    [transports |-> s.torder,
     producers |-> s.porder,
     consumers |-> s.corder,
     hasCapabilities |-> s.hasCapabilities]

\* ---------------------------------------------------------- AddConsumer
\* The Consumer object the Room constructs before it calls AddConsumer, and
\* Consumer::Send(rtpParameters), which AddConsumer calls on it.
NewConsumer(s, c, kind, active) ==
    [s EXCEPT !.heapC = @ \cup {c}, !.ckind[c] = kind, !.cactive[c] = active,
              !.ctrans[c] = NullTransport, !.cparams[c] = NoParams]
ConsumerSend(s, c, params) == [s EXCEPT !.cparams[c] = params]

\* Peer::AddConsumer that overwrites an entry of the same id.
AddConsumerReplace(s, c, kind, params, active) ==
    LET s1 == ConsumerSend(NewConsumer(s, c, kind, active), c, params)
        s2 == [s1 EXCEPT !.consumers = @ \cup {c}, !.corder = MapInsert(@, c)]
    IN Log(s2, Call("Emit", c, 0, "newconsumer"))

\* Peer::AddConsumer(consumer, rtpParameters, associatedProducerId) for a
\* Consumer object the Room has just constructed with this id, kind and
\* active flag.  A failed MS_ASSERT aborts the process.
AddConsumer(s, c, kind, params, active) ==
    IF c \in s.consumers
    THEN [s EXCEPT !.crashed = TRUE]
    ELSE LET s1 == ConsumerSend(NewConsumer(s, c, kind, active), c, params)
             s2 == [s1 EXCEPT !.consumers = @ \cup {c}, !.corder = MapInsert(@, c)]
         IN Log(s2, Call("Emit", c, 0, "newconsumer"))

\* The RTP parameters the Room sends for a pending Consumer: one encoding
\* whose ssrc is the Consumer's id.
PendingParams(c) == Params(<<Enc(c, FALSE, 0, FALSE, 0)>>)

\* Room::OnPeerCapabilities, second half: a Consumer is created and added for
\* every Producer of the other Peers.
RECURSIVE RoomAddPending(_, _)
RoomAddPending(s, cs) ==
    IF cs = <<>> THEN [s EXCEPT !.roomPending = {}]
    ELSE RoomAddPending(AddConsumer(s, Head(cs), "VIDEO", PendingParams(Head(cs)), TRUE),
                        Tail(cs))

\* ------------------------------------------------------------- requests
\* request->data["kind"] that is absent or not a string.
NoKind == "<none>"
\* request->data that RTC::RtpCapabilities(data) refuses.
Malformed == "<malformed>"
\* The capabilities of the Room, to which OnPeerCapabilities reduces the Peer's.
RoomCapabilities == {"opus", "vp8"}

\* RTC::Media::GetKind(kind): the Kind of a kind string, "" when it throws.
GetKind(kind) ==
    CASE kind = "audio" -> "AUDIO"
      [] kind = "video" -> "VIDEO"
      [] kind = "depth" -> "DEPTH"
      [] OTHER -> ""

\* Json::Value::isUInt() of an id in request->internal.
IsUInt(j) == j >= 0

\* Peer::GetTransportFromRequest: err when it throws, else the pointer found.
GetTransportFromRequest(s, req) ==
    IF ~IsUInt(req.transportId) THEN [err |-> TRUE, ptr |-> NullTransport]
    ELSE IF req.transportId \in s.transports
         THEN [err |-> FALSE, ptr |-> req.transportId]
         ELSE [err |-> FALSE, ptr |-> NullTransport]

\* Peer::GetProducerFromRequest (0 is the null pointer).
GetProducerFromRequest(s, req) ==
    IF ~IsUInt(req.producerId) THEN [err |-> TRUE, ptr |-> 0]
    ELSE IF req.producerId \in s.producers
         THEN [err |-> FALSE, ptr |-> req.producerId]
         ELSE [err |-> FALSE, ptr |-> 0]

\* Peer::GetConsumerFromRequest (0 is the null pointer).
GetConsumerFromRequest(s, req) ==
    IF ~IsUInt(req.consumerId) THEN [err |-> TRUE, ptr |-> 0]
    ELSE IF req.consumerId \in s.consumers
         THEN [err |-> FALSE, ptr |-> req.consumerId]
         ELSE [err |-> FALSE, ptr |-> 0]

\* case PEER_CLOSE
PeerClose(s) == Accept(Destroy(s))

\* case PEER_DUMP
PeerDump(s) == Accept(s)

\* Room::OnPeerCapabilities: reduces the capabilities in place, then adds the
\* pending Consumers.
OnPeerCapabilities(s) ==
    LET s1 == Log([s EXCEPT !.capabilities = @ \cap RoomCapabilities],
                  Call("OnPeerCapabilities", 0, 0, ""))
    IN RoomAddPending(s1, SetToSeq(s1.roomPending))

\* case PEER_SET_CAPABILITIES without the hasCapabilities guard.
PeerSetCapabilitiesOverwrite(s, req) ==
    IF Malformed \in req.caps THEN Reject(s, "invalid capabilities")
    ELSE LET s1 == [s EXCEPT !.capabilities = req.caps, !.hasCapabilities = TRUE]
         IN Accept(OnPeerCapabilities(s1))

\* case PEER_SET_CAPABILITIES that replies before it notifies the Room.
PeerSetCapabilitiesAcceptFirst(s, req) ==
    IF s.hasCapabilities THEN Reject(s, "peer capabilities already set")
    ELSE IF Malformed \in req.caps THEN Reject(s, "invalid capabilities")
    ELSE LET s1 == [s EXCEPT !.capabilities = req.caps, !.hasCapabilities = TRUE]
         IN OnPeerCapabilities(Accept(s1))

\* case PEER_SET_CAPABILITIES
PeerSetCapabilities(s, req) ==
    IF s.hasCapabilities THEN Reject(s, "peer capabilities already set")
    ELSE IF Malformed \in req.caps THEN Reject(s, "invalid capabilities")
    ELSE LET s1 == [s EXCEPT !.capabilities = req.caps, !.hasCapabilities = TRUE]
         IN Accept(OnPeerCapabilities(s1))

\* case PEER_CREATE_TRANSPORT that stores the id before the constructor runs.
PeerCreateTransportStoreFirst(s, req, ok) ==
    LET g == GetTransportFromRequest(s, req)
        id == req.transportId
    IN IF g.err THEN Reject(s, "Request has not numeric internal.transportId")
       ELSE IF g.ptr # NullTransport THEN Reject(s, "Transport already exists")
       ELSE LET s1 == [s EXCEPT !.transports = @ \cup {id}, !.torder = MapInsert(@, id)]
            IN IF ~ok THEN Reject(s1, "Transport constructor error")
               ELSE Accept(Log([s1 EXCEPT !.heapT = @ \cup {id}],
                               Call("new Transport", id, 0, "")))

\* case PEER_CREATE_TRANSPORT; ok: the Transport constructor does not throw.
PeerCreateTransport(s, req, ok) ==
    LET g == GetTransportFromRequest(s, req)
        id == req.transportId
    IN IF g.err THEN Reject(s, "Request has not numeric internal.transportId")
       ELSE IF g.ptr # NullTransport THEN Reject(s, "Transport already exists")
       ELSE IF ~ok THEN Reject(s, "Transport constructor error")
       ELSE LET s1 == Log([s EXCEPT !.heapT = @ \cup {id}],
                          Call("new Transport", id, 0, ""))
                s2 == [s1 EXCEPT !.transports = @ \cup {id}, !.torder = MapInsert(@, id)]
            IN Accept(s2)

\* case PEER_CREATE_PRODUCER, after the capabilities guard (lines 270-334).
CreateProducerBody(s, req) ==
    LET gp == GetProducerFromRequest(s, req)
        gt == GetTransportFromRequest(s, req)
        id == req.producerId
    IN IF gp.err THEN Reject(s, "Request has not numeric internal.producerId")
       ELSE IF gp.ptr # 0 THEN Reject(s, "Producer already exists")
       ELSE IF gt.err THEN Reject(s, "Request has not numeric internal.transportId")
       ELSE IF gt.ptr = NullTransport THEN Reject(s, "Transport does not exist")
       ELSE IF req.kind = NoKind THEN Throw(s, "missing kind")
       ELSE IF GetKind(req.kind) = "" THEN Reject(s, "invalid kind")
       ELSE LET s1 == Log([s EXCEPT !.heapP = @ \cup {id},
                                    !.pkind[id] = GetKind(req.kind)],
                          Call("new Producer", id, 0, ""))
                s2 == [s1 EXCEPT !.producers = @ \cup {id}, !.porder = MapInsert(@, id)]
            IN Accept(ProducerSetTransport(s2, id, gt.ptr))

\* case PEER_CREATE_PRODUCER without the capabilities guard.
PeerCreateProducerNoCapsCheck(s, req) == CreateProducerBody(s, req)

\* case PEER_CREATE_PRODUCER
PeerCreateProducer(s, req) ==
    IF ~s.hasCapabilities THEN Reject(s, "peer capabilities are not yet set")
    ELSE CreateProducerBody(s, req)

\* Transport::HandleRequest; ok: the Transport accepts the request.
TransportHandleRequest(s, t, req, ok) ==
    IF req.methodId = "TRANSPORT_CLOSE" THEN Accept(TransportDestroy(s, t))
    ELSE IF ok THEN Accept(s) ELSE Reject(s, "Transport error")

\* cases TRANSPORT_*
TransportRequest(s, req, ok) ==
    LET g == GetTransportFromRequest(s, req)
    IN IF g.err THEN Reject(s, "Request has not numeric internal.transportId")
       ELSE IF g.ptr = NullTransport THEN Reject(s, "Transport does not exist")
       ELSE TransportHandleRequest(s, g.ptr, req, ok)

\* Peer::OnProducerParameters; ok: Transport::AddProducer does not throw.
\* The result has no calls appended when AddProducer throws.
OnProducerParameters(s, p, ok) ==
    IF s.ptrans[p] # NullTransport /\ ok
    THEN TransportAddProducer(s, s.ptrans[p], p)
    ELSE s

\* Peer::OnProducerParametersDone
OnProducerParametersDone(s, p) == Log(s, Call("OnPeerProducerParameters", p, 0, ""))

\* Producer::HandleRequest; ok: the Producer's own processing succeeds.
ProducerHandleRequest(s, p, req, ok) ==
    IF req.methodId = "PRODUCER_CLOSE" THEN Accept(ProducerDestroy(s, p))
    ELSE IF req.methodId = "PRODUCER_RECEIVE"
    THEN IF s.ptrans[p] # NullTransport /\ ~ok
         THEN Reject(s, "OnProducerParameters error")
         ELSE Accept(OnProducerParametersDone(OnProducerParameters(s, p, ok), p))
    ELSE IF ok THEN Accept(s) ELSE Reject(s, "Producer error")

\* cases PRODUCER_CLOSE .. PRODUCER_SET_RTP_OBJECT_EVENT
ProducerRequest(s, req, ok) ==
    LET g == GetProducerFromRequest(s, req)
    IN IF g.err THEN Reject(s, "Request has not numeric internal.producerId")
       ELSE IF g.ptr = 0 THEN Reject(s, "Producer does not exist")
       ELSE ProducerHandleRequest(s, g.ptr, req, ok)

\* Lines 441-461 with the Producer's pointer updated before AddProducer is tried.
BindProducerSetFirst(s, p, t, ok) ==
    LET previousTransport == s.ptrans[p]
        s1 == ProducerSetTransport(s, p, t)
    IN IF ~ok THEN Reject(s1, "AddProducer error")
       ELSE LET s2 == TransportAddProducer(s1, t, p)
                s3 == IF previousTransport # NullTransport /\ s2.remb[previousTransport]
                      THEN TransportEnableRemb(s2, t) ELSE s2
            IN Accept(s3)

\* Lines 441-461 without the REMB carry-over.
BindProducerNoRemb(s, p, t, ok) ==
    IF ~ok THEN Reject(s, "AddProducer error")
    ELSE Accept(ProducerSetTransport(TransportAddProducer(s, t, p), p, t))

\* Lines 441-461 of case PRODUCER_SET_TRANSPORT, once both entities are
\* resolved; ok: Transport::AddProducer does not throw.
BindProducer(s, p, t, ok) ==
    IF ~ok THEN Reject(s, "AddProducer error")
    ELSE LET s1 == TransportAddProducer(s, t, p)
             previousTransport == s1.ptrans[p]
             s2 == IF previousTransport # NullTransport /\ s1.remb[previousTransport]
                   THEN TransportEnableRemb(s1, t) ELSE s1
         IN Accept(ProducerSetTransport(s2, p, t))

\* case PRODUCER_SET_TRANSPORT
ProducerSetTransportRequest(s, req, ok) ==
    LET gp == GetProducerFromRequest(s, req)
        gt == GetTransportFromRequest(s, req)
    IN IF gp.err THEN Reject(s, "Request has not numeric internal.producerId")
       ELSE IF gp.ptr = 0 THEN Reject(s, "Producer does not exist")
       ELSE IF gt.err THEN Reject(s, "Request has not numeric internal.transportId")
       ELSE IF gt.ptr = NullTransport THEN Reject(s, "Transport does not exist")
       ELSE BindProducer(s, gp.ptr, gt.ptr, ok)

\* Consumer::HandleRequest; ok: the Consumer accepts the request.
ConsumerHandleRequest(s, c, req, ok) ==
    IF ok THEN Accept(s) ELSE Reject(s, "Consumer error")

\* cases CONSUMER_DUMP and CONSUMER_DISABLE
ConsumerRequest(s, req, ok) ==
    LET g == GetConsumerFromRequest(s, req)
    IN IF g.err THEN Reject(s, "Request has not numeric internal.consumerId")
       ELSE IF g.ptr = 0 THEN Reject(s, "Consumer does not exist")
       ELSE ConsumerHandleRequest(s, g.ptr, req, ok)

\* case CONSUMER_SET_TRANSPORT
ConsumerSetTransportRequest(s, req) ==
    LET gc == GetConsumerFromRequest(s, req)
        gt == GetTransportFromRequest(s, req)
    IN IF gc.err THEN Reject(s, "Request has not numeric internal.consumerId")
       ELSE IF gc.ptr = 0 THEN Reject(s, "Consumer does not exist")
       ELSE IF gt.err THEN Reject(s, "Request has not numeric internal.transportId")
       ELSE IF gt.ptr = NullTransport THEN Reject(s, "Transport does not exist")
       ELSE Accept(ConsumerSetTransport(s, gc.ptr, gt.ptr))

TransportMethods ==
    {"TRANSPORT_CLOSE", "TRANSPORT_DUMP", "TRANSPORT_SET_REMOTE_DTLS_PARAMETERS",
     "TRANSPORT_SET_MAX_BITRATE", "TRANSPORT_CHANGE_UFRAG_PWD"}
ProducerMethods ==
    {"PRODUCER_CLOSE", "PRODUCER_DUMP", "PRODUCER_RECEIVE",
     "PRODUCER_SET_RTP_RAW_EVENT", "PRODUCER_SET_RTP_OBJECT_EVENT"}
ConsumerMethods == {"CONSUMER_DUMP", "CONSUMER_DISABLE"}

\* Peer::HandleRequest(request): the switch on request->methodId.
HandleRequest(s, req, ok) ==
    LET m == req.methodId
    IN CASE m = "PEER_CLOSE" -> PeerClose(s)
         [] m = "PEER_DUMP" -> PeerDump(s)
         [] m = "PEER_SET_CAPABILITIES" -> PeerSetCapabilities(s, req)
         [] m = "PEER_CREATE_TRANSPORT" -> PeerCreateTransport(s, req, ok)
         [] m = "PEER_CREATE_PRODUCER" -> PeerCreateProducer(s, req)
         [] m \in TransportMethods -> TransportRequest(s, req, ok)
         [] m \in ProducerMethods -> ProducerRequest(s, req, ok)
         [] m = "PRODUCER_SET_TRANSPORT" -> ProducerSetTransportRequest(s, req, ok)
         [] m \in ConsumerMethods -> ConsumerRequest(s, req, ok)
         [] m = "CONSUMER_SET_TRANSPORT" -> ConsumerSetTransportRequest(s, req)
         [] OTHER -> Reject(s, "unknown method")

\* ---------------------------------------------------------- GetConsumer
\* The comparisons with the FEC and RTX presence flags ignored.
EncodingMatchesAnyField(encoding, ssrc) ==
    encoding.ssrc = ssrc \/ encoding.fec = ssrc \/ encoding.rtx = ssrc

\* The three comparisons made on one encoding (Peer.cpp:633-638).
EncodingMatches(encoding, ssrc) ==
    IF encoding.ssrc = ssrc THEN TRUE
    ELSE IF encoding.hasFec /\ encoding.fec = ssrc THEN TRUE
    ELSE IF encoding.hasRtx /\ encoding.rtx = ssrc THEN TRUE
    ELSE FALSE

\* The inner loop over rtpParameters->encodings.
RECURSIVE AnyEncodingMatches(_, _)
AnyEncodingMatches(encodings, ssrc) ==
    IF encodings = <<>> THEN FALSE
    ELSE IF EncodingMatches(Head(encodings), ssrc) THEN TRUE
    ELSE AnyEncodingMatches(Tail(encodings), ssrc)

\* The outer loop over this->consumers; 0 is the null pointer.
RECURSIVE GetConsumerFrom(_, _, _)
GetConsumerFrom(s, cs, ssrc) ==
    IF cs = <<>> THEN 0
    ELSE LET consumer == Head(cs)
             rtpParameters == s.cparams[consumer]
         IN IF ~rtpParameters.has THEN GetConsumerFrom(s, Tail(cs), ssrc)
            ELSE IF AnyEncodingMatches(rtpParameters.encodings, ssrc) THEN consumer
            ELSE GetConsumerFrom(s, Tail(cs), ssrc)

\* Peer::GetConsumer(ssrc)
GetConsumer(s, ssrc) == GetConsumerFrom(s, s.corder, ssrc)

\* ------------------------------------------------ OnTransportRtcpPacket
\* One RTCP packet of a compound: its type, the message type and media ssrc
\* of a feedback packet, the application of an AFB packet, and the ssrcs of
\* its report blocks (RR), reports (SR) or chunks (SDES).
Rtcp(type, mtype, app, mediaSsrc, ssrcs) ==
    [type |-> type, mtype |-> mtype, app |-> app, mediaSsrc |-> mediaSsrc,
     ssrcs |-> ssrcs]

\* The SSRC a Producer sends with.
ProducerSsrc(p) == p

\* Transport::GetProducer(ssrc): the Producer registered in this Transport
\* that sends with ssrc; 0 is the null pointer.
TransportGetProducer(s, t, ssrc) ==
    LET found == {p \in s.tprod[t] : ProducerSsrc(p) = ssrc}
    IN IF found = {} THEN 0 ELSE CHOOSE p \in found : TRUE

\* case RTCP::Type::RR that stops at the first block no Consumer claims.
RECURSIVE ReceiverReportsStopAtMiss(_, _)
ReceiverReportsStopAtMiss(s, reports) ==
    IF reports = <<>> THEN s
    ELSE LET consumer == GetConsumer(s, Head(reports))
         IN IF consumer # 0
            THEN ReceiverReportsStopAtMiss(
                     Log(s, Call("OnPeerRtcpReceiverReport", consumer, Head(reports), "")),
                     Tail(reports))
            ELSE s

\* case RTCP::Type::RR: the loop over the report blocks.
RECURSIVE ReceiverReports(_, _)
ReceiverReports(s, reports) ==
    IF reports = <<>> THEN s
    ELSE LET consumer == GetConsumer(s, Head(reports))
         IN IF consumer # 0
            THEN ReceiverReports(
                     Log(s, Call("OnPeerRtcpReceiverReport", consumer, Head(reports), "")),
                     Tail(reports))
            ELSE ReceiverReports(s, Tail(reports))

\* Lines 943-975 without the check of Consumer::GetActive().
PsFeedbackToAnyConsumer(s, feedback) ==
    LET consumer == GetConsumer(s, feedback.mediaSsrc)
    IN IF consumer # 0
       THEN Log(s, Call("OnPeerRtcpFeedback", consumer, feedback.mediaSsrc,
                        feedback.mtype))
       ELSE s

\* cases PLI, SLI, RPSI, FIR (Peer.cpp:943-975), also reached by falling
\* through from case AFB.
PsFeedbackToConsumer(s, feedback) ==
    LET consumer == GetConsumer(s, feedback.mediaSsrc)
    IN IF consumer # 0
       THEN IF ~s.cactive[consumer] THEN s
            ELSE Log(s, Call("OnPeerRtcpFeedback", consumer, feedback.mediaSsrc,
                             feedback.mtype))
       ELSE s

\* case RTCP::Type::PSFB: the switch on the message type.  case AFB has no
\* break of its own unless the application is REMB.
PsFeedback(s, feedback) ==
    CASE feedback.mtype = "AFB" ->
            IF feedback.app = "REMB" THEN s ELSE PsFeedbackToConsumer(s, feedback)
      [] feedback.mtype \in {"PLI", "SLI", "RPSI", "FIR"} ->
            PsFeedbackToConsumer(s, feedback)
      [] OTHER -> s

\* case RTCP::Type::RTPFB that hands a NACK to every Consumer.
RtpFeedbackToAll(s, feedback) ==
    LET RECURSIVE All(_, _)
        All(r, cs) ==
            IF cs = <<>> THEN r
            ELSE All(Log(r, Call("Consumer::ReceiveNack", Head(cs), feedback.mediaSsrc,
                                 Mark(r.heapC, Head(cs)))), Tail(cs))
    IN IF feedback.mtype = "NACK" THEN All(s, s.corder) ELSE s

\* case RTCP::Type::RTPFB
RtpFeedback(s, feedback) ==
    CASE feedback.mtype = "NACK" ->
            LET consumer == GetConsumer(s, feedback.mediaSsrc)
            IN IF consumer # 0
               THEN Log(s, Call("Consumer::ReceiveNack", consumer, feedback.mediaSsrc,
                                Mark(s.heapC, consumer)))
               ELSE s
      [] OTHER -> s

\* case RTCP::Type::SR that looks the ssrc up in every Transport of the Peer.
RECURSIVE SenderReportsAnyTransport(_, _, _)
SenderReportsAnyTransport(s, t, reports) ==
    IF reports = <<>> THEN s
    ELSE LET found == {p \in s.producers : ProducerSsrc(p) = Head(reports)
                                            /\ \E u \in s.transports : p \in s.tprod[u]}
         IN IF found # {}
            THEN SenderReportsAnyTransport(
                     Log(s, Call("OnPeerRtcpSenderReport", CHOOSE p \in found : TRUE,
                                 Head(reports), "")),
                     t, Tail(reports))
            ELSE SenderReportsAnyTransport(s, t, Tail(reports))

\* case RTCP::Type::SR: the loop over the reports.
RECURSIVE SenderReports(_, _, _)
SenderReports(s, t, reports) ==
    IF reports = <<>> THEN s
    ELSE LET producer == TransportGetProducer(s, t, Head(reports))
         IN IF producer # 0
            THEN SenderReports(
                     Log(s, Call("OnPeerRtcpSenderReport", producer, Head(reports), "")),
                     t, Tail(reports))
            ELSE SenderReports(s, t, Tail(reports))

\* case RTCP::Type::SDES: the chunks are looked up, nothing is forwarded.
SdesChunks(s, t, chunks) == s

\* The body of the while loop for one packet: the switch on its type.
RtcpOne(s, t, packet) ==
    CASE packet.type = "RR" -> ReceiverReports(s, packet.ssrcs)
      [] packet.type = "PSFB" -> PsFeedback(s, packet)
      [] packet.type = "RTPFB" -> RtpFeedback(s, packet)
      [] packet.type = "SR" -> SenderReports(s, t, packet.ssrcs)
      [] packet.type = "SDES" -> SdesChunks(s, t, packet.ssrcs)
      [] packet.type = "BYE" -> s
      [] OTHER -> s

\* Peer::OnTransportRtcpPacket(transport, packet): the walk along GetNext().
RECURSIVE OnTransportRtcpPacket(_, _, _)
OnTransportRtcpPacket(s, t, packets) ==
    IF packets = <<>> THEN s
    ELSE OnTransportRtcpPacket(RtcpOne(s, t, Head(packets)), t, Tail(packets))

\* ------------------------------------------------- OnTransportConnected
\* The loop of OnTransportConnected if it did not look at the kind.
RECURSIVE FullFramesAnyKind(_, _, _)
FullFramesAnyKind(s, cs, t) ==
    IF cs = <<>> THEN s
    ELSE LET c == Head(cs)
         IN IF s.ctrans[c] # t
            THEN FullFramesAnyKind(s, Tail(cs), t)
            ELSE FullFramesAnyKind(Log(s, Call("OnFullFrameRequired", c, 0, "")),
                                   Tail(cs), t)

\* The loop over the consumers in OnTransportConnected.
RECURSIVE FullFrames(_, _, _)
FullFrames(s, cs, t) ==
    IF cs = <<>> THEN s
    ELSE LET c == Head(cs)
         IN IF s.ckind[c] # "VIDEO" /\ s.ckind[c] # "DEPTH"
            THEN FullFrames(s, Tail(cs), t)
            ELSE IF s.ctrans[c] # t
            THEN FullFrames(s, Tail(cs), t)
            ELSE FullFrames(Log(s, Call("OnFullFrameRequired", c, 0, "")), Tail(cs), t)

\* Peer::OnTransportConnected(transport)
OnTransportConnected(s, t) == FullFrames(s, s.corder, t)

\* ----------------------------------------- OnTransportFullFrameRequired
\* The loop over the producers in OnTransportFullFrameRequired.
RECURSIVE ProducerFullFrames(_, _, _)
ProducerFullFrames(s, ps, t) ==
    IF ps = <<>> THEN s
    ELSE LET p == Head(ps)
         IN IF s.pkind[p] # "VIDEO" /\ s.pkind[p] # "DEPTH"
            THEN ProducerFullFrames(s, Tail(ps), t)
            ELSE IF s.ptrans[p] # t
            THEN ProducerFullFrames(s, Tail(ps), t)
            ELSE ProducerFullFrames(
                     Log(s, Call("Producer::RequestFullFrame", p, 0, Mark(s.heapP, p))),
                     Tail(ps), t)

\* Peer::OnTransportFullFrameRequired(transport)
OnTransportFullFrameRequired(s, t) == ProducerFullFrames(s, s.porder, t)

\* Peer::OnConsumerFullFrameRequired(consumer)
OnConsumerFullFrameRequired(s, c) == Log(s, Call("OnFullFrameRequired", c, 0, ""))

\* Peer::OnRtpPacket(producer, packet)
OnRtpPacket(s, p) == Log(s, Call("OnPeerRtpPacket", p, 0, ""))

\* ------------------------------------------------------ RTCP timer tick
\* RTC::RTCP::BufferSize (RTC/RTCP/Packet.hpp), used at Peer.cpp:673,701.
BufferSize == 65536

\* A fresh RTC::RTCP::CompoundPacket.
EmptyPacket == [sr |-> 0, rr |-> 0, size |-> 0]

\* transport->SendRtcpCompoundPacket(packet)
SendRtcpCompoundPacket(s, t, pkt) ==
    Log(s, [c |-> "SendRtcpCompoundPacket", a |-> t, b |-> pkt.size,
            s |-> Mark(s.heapT, t), sr |-> pkt.sr, rr |-> pkt.rr])

\* consumer->GetRtcp(packet, now): the Consumer adds tick.sr[c] Sender
\* Reports and tick.csize[c] bytes to the packet.
ConsumerGetRtcp(s, c, tick) ==
    Log(s, [c |-> "Consumer::GetRtcp", a |-> c, b |-> tick.csize[c],
            s |-> Mark(s.heapC, c), sr |-> tick.sr[c], rr |-> 0])

\* producer->GetRtcp(packet, now): the Producer adds tick.rr[p] Receiver
\* Reports and tick.psize[p] bytes to the packet.
ProducerGetRtcp(s, p, tick) ==
    Log(s, [c |-> "Producer::GetRtcp", a |-> p, b |-> tick.psize[p],
            s |-> Mark(s.heapP, p), sr |-> 0, rr |-> tick.rr[p]])

\* The loop over the consumers in SendRtcp, for transport t.  r is
\* [s, pkt, stop]: stop is set when the function returns early.
RECURSIVE SendRtcpConsumers(_, _, _, _)
SendRtcpConsumers(r, cs, t, tick) ==
    IF cs = <<>> \/ r.stop THEN r
    ELSE LET c == Head(cs)
         IN IF r.s.ctrans[c] # t THEN SendRtcpConsumers(r, Tail(cs), t, tick)
            ELSE LET pkt == [sr |-> r.pkt.sr + tick.sr[c], rr |-> r.pkt.rr,
                             size |-> r.pkt.size + tick.csize[c]]
                     asked == ConsumerGetRtcp(r.s, c, tick)
                 IN IF pkt.sr # 0
                    THEN IF pkt.size > BufferSize
                         THEN [s |-> asked, pkt |-> pkt, stop |-> TRUE]
                         ELSE SendRtcpConsumers(
                                  [s |-> SendRtcpCompoundPacket(asked, t, pkt),
                                   pkt |-> EmptyPacket, stop |-> FALSE],
                                  Tail(cs), t, tick)
                    ELSE SendRtcpConsumers([s |-> asked, pkt |-> pkt, stop |-> FALSE],
                                           Tail(cs), t, tick)

\* The loop over the producers in SendRtcp, for transport t.
RECURSIVE SendRtcpProducers(_, _, _, _)
SendRtcpProducers(r, ps, t, tick) ==
    IF ps = <<>> \/ r.stop THEN r
    ELSE LET p == Head(ps)
         IN IF r.s.ptrans[p] # t THEN SendRtcpProducers(r, Tail(ps), t, tick)
            ELSE SendRtcpProducers(
                     [s |-> ProducerGetRtcp(r.s, p, tick),
                      pkt |-> [sr |-> r.pkt.sr, rr |-> r.pkt.rr + tick.rr[p],
                               size |-> r.pkt.size + tick.psize[p]],
                      stop |-> FALSE],
                     Tail(ps), t, tick)

\* The loop over the transports if the compound of Receiver Reports were
\* sent without looking at its size.
RECURSIVE SendRtcpTransportsAnySize(_, _, _)
SendRtcpTransportsAnySize(s, ts, tick) ==
    IF ts = <<>> THEN s
    ELSE LET t == Head(ts)
             r0 == [s |-> s, pkt |-> EmptyPacket, stop |-> FALSE]
             r1 == SendRtcpConsumers(r0, s.corder, t, tick)
             r2 == SendRtcpProducers(r1, s.porder, t, tick)
         IN IF r2.stop THEN r2.s
            ELSE IF r2.pkt.rr # 0
            THEN SendRtcpTransportsAnySize(SendRtcpCompoundPacket(r2.s, t, r2.pkt),
                                           Tail(ts), tick)
            ELSE SendRtcpTransportsAnySize(r2.s, Tail(ts), tick)

\* The loop over the transports in SendRtcp.
RECURSIVE SendRtcpTransports(_, _, _)
SendRtcpTransports(s, ts, tick) ==
    IF ts = <<>> THEN s
    ELSE LET t == Head(ts)
             r0 == [s |-> s, pkt |-> EmptyPacket, stop |-> FALSE]
             r1 == SendRtcpConsumers(r0, s.corder, t, tick)
             r2 == SendRtcpProducers(r1, s.porder, t, tick)
         IN IF r2.stop THEN r2.s
            ELSE IF r2.pkt.rr # 0
            THEN IF r2.pkt.size > BufferSize THEN r2.s
                 ELSE SendRtcpTransports(SendRtcpCompoundPacket(r2.s, t, r2.pkt),
                                         Tail(ts), tick)
            ELSE SendRtcpTransports(r2.s, Tail(ts), tick)

\* Peer::SendRtcp(now)
SendRtcp(s, tick) == SendRtcpTransports(s, s.torder, tick)

\* rate += consumer->GetTransmissionRate(now) / 1000, over all consumers.  Each
\* term is at most 4294967 (a uint32_t rate / 1000), so the uint32_t sum cannot
\* wrap for the numbers of consumers modelled.
RECURSIVE RateKbps(_, _)
RateKbps(cs, tick) ==
    IF cs = <<>> THEN 0
    ELSE (tick.rate[Head(cs)] \div 1000) + RateKbps(Tail(cs), tick)

\* The calls consumer->GetTransmissionRate(now) of that loop; b is the rate
\* returned, in bits/s.
RECURSIVE TransmissionRates(_, _, _)
TransmissionRates(s, cs, tick) ==
    IF cs = <<>> THEN s
    ELSE TransmissionRates(
             Log(s, Call("GetTransmissionRate", Head(cs), tick.rate[Head(cs)],
                         Mark(s.heapC, Head(cs)))),
             Tail(cs), tick)

\* The interval computed at lines 1165-1190.
BaseInterval(s, tick) ==
    IF s.consumers = {} THEN MaxVideoIntervalMs
    ELSE LET rate == RateKbps(s.corder, tick)
             interval == IF rate # 0 THEN 360000 \div rate ELSE MaxVideoIntervalMs
         IN IF interval > MaxVideoIntervalMs THEN MaxVideoIntervalMs ELSE interval

\* static_cast<float>(k) / 10 for k in 5..15: the IEEE single nearest to
\* k / 10 (ties to even), as [m, e] standing for m * 2^-e with a 24 bit m.
FloatFactor(k) ==
    LET e == IF k < 10 THEN 24 ELSE 23
        q == (k * 2^e) \div 10
        r == (k * 2^e) % 10
    IN [m |-> IF r > 5 \/ (r = 5 /\ q % 2 = 1) THEN q + 1 ELSE q, e |-> e]

\* interval * f in single precision, converted back to uint64_t (truncation),
\* for interval < 2^11.  The exact product interval * f.m is h * 2^12 + low;
\* it is rounded to 24 significant bits (ties to even) by dropping its d low
\* bits.
FloatMulToUInt(interval, f) ==
    LET mh == f.m \div 4096
        ml == f.m % 4096
        h == interval * mh + (interval * ml) \div 4096
        low == (interval * ml) % 4096
        d == CHOOSE n \in 0..11 : h < 2^(12 + n) /\ (n = 0 \/ h >= 2^(11 + n))
        q == h * 2^(12 - d) + low \div 2^d
        r == low % 2^d
        up == d > 0 /\ (2 * r > 2^d \/ (2 * r = 2^d /\ q % 2 = 1))
        rounded == IF up THEN q + 1 ELSE q
    IN rounded \div 2^(f.e - d)

\* interval *= static_cast<float>(k) / 10 (line 1197): the product is
\* computed in single precision and truncated back to uint64_t.
Jitter(interval, k) == FloatMulToUInt(interval, FloatFactor(k))

\* Peer::OnTimer(timer)
OnTimer(s, tick) ==
    LET s1 == SendRtcp(s, tick)
        s2 == TransmissionRates(s1, s1.corder, tick)
        s3 == Log(s2, Call("GetRandomUInt", tick.k, 0, ""))
    IN Log(s3, Call("Timer::Start", Jitter(BaseInterval(s1, tick), tick.k), 0, ""))

\* ---------------------------------------------------------------- inputs
Req(m, t, p, c, kind, caps) ==
    [methodId |-> m, transportId |-> t, producerId |-> p, consumerId |-> c,
     kind |-> kind, caps |-> caps]

KindInputs == {"audio", "video", "depth", "bogus", NoKind}
ConsumerKinds == {"AUDIO", "VIDEO", "DEPTH"}
CapsInputs == {{"opus"}, {"vp8", "h264"}, {Malformed}}

PeerMethods ==
    {"PEER_CLOSE", "PEER_DUMP", "PEER_SET_CAPABILITIES", "PEER_CREATE_TRANSPORT",
     "PEER_CREATE_PRODUCER"}
\* A methodId that is not one of Peer's cases.
OtherMethods == {"WORKER_DUMP"}
AllMethods ==
    PeerMethods \cup TransportMethods \cup ProducerMethods \cup ConsumerMethods
    \cup {"PRODUCER_SET_TRANSPORT", "CONSUMER_SET_TRANSPORT"} \cup OtherMethods

\* The requests the Channel may deliver, with ids drawn from tids, pids and
\* cids, kind strings from kinds and capabilities from capss; a field a method
\* does not read is absent (NotUInt / NoKind / {}).
RequestsOver(tids, pids, cids, kinds, capss) ==
    {Req(m, NotUInt, NotUInt, NotUInt, NoKind, {}) :
        m \in {"PEER_CLOSE", "PEER_DUMP"} \cup OtherMethods}
    \cup {Req("PEER_SET_CAPABILITIES", NotUInt, NotUInt, NotUInt, NoKind, caps) :
            caps \in capss}
    \cup {Req("PEER_CREATE_TRANSPORT", t, NotUInt, NotUInt, NoKind, {}) : t \in tids}
    \cup {Req("PEER_CREATE_PRODUCER", t, p, NotUInt, kind, {}) :
            t \in tids, p \in pids, kind \in kinds}
    \cup {Req(m, t, NotUInt, NotUInt, NoKind, {}) : m \in TransportMethods, t \in tids}
    \cup {Req(m, NotUInt, p, NotUInt, NoKind, {}) : m \in ProducerMethods, p \in pids}
    \cup {Req("PRODUCER_SET_TRANSPORT", t, p, NotUInt, NoKind, {}) :
            t \in tids, p \in pids}
    \cup {Req(m, NotUInt, NotUInt, c, NoKind, {}) : m \in ConsumerMethods, c \in cids}
    \cup {Req("CONSUMER_SET_TRANSPORT", t, NotUInt, c, NoKind, {}) :
            t \in tids, c \in cids}

\* The methods whose outcome depends on a callee that may fail (a constructor,
\* AddProducer, or the entity's own handling of a delegated request).
MayFail(m) ==
    m \in {"PEER_CREATE_TRANSPORT", "PRODUCER_SET_TRANSPORT", "PRODUCER_RECEIVE",
           "TRANSPORT_SET_REMOTE_DTLS_PARAMETERS", "PRODUCER_SET_RTP_RAW_EVENT",
           "CONSUMER_DISABLE"}
OkInputs(req) == IF MayFail(req.methodId) THEN BOOLEAN ELSE {TRUE}

\* What the Consumers and Producers answer to GetRtcp / GetTransmissionRate
\* during one tick, and the random factor.
TickOf(sr, rr, size, rate, k) ==
    [sr |-> [c \in ConsumerIds |-> sr], csize |-> [c \in ConsumerIds |-> size],
     rr |-> [p \in ProducerIds |-> rr], psize |-> [p \in ProducerIds |-> size],
     rate |-> [c \in ConsumerIds |-> rate], k |-> k]

Ticks == {TickOf(sr, rr, 100, 1000000, 10) : sr \in 0..1, rr \in 0..1}

\* ------------------------------------------------------- RTCP reception
\* The packets a compound is made of.
ReceiverReportPackets == {Rtcp("RR", "", "", 0, ssrcs) : ssrcs \in {<<1>>, <<3, 1>>, <<1, 2>>}}
PsFeedbackPackets ==
    {Rtcp("PSFB", mtype, "", ssrc, <<>>) :
        mtype \in {"PLI", "SLI", "RPSI", "FIR", "TSTR"}, ssrc \in Ssrcs}
    \cup {Rtcp("PSFB", "AFB", app, ssrc, <<>>) : app \in {"REMB", "UNKNOWN"}, ssrc \in Ssrcs}
RtpFeedbackPackets ==
    {Rtcp("RTPFB", mtype, "", ssrc, <<>>) : mtype \in {"NACK", "TMMBR"}, ssrc \in Ssrcs}
SenderReportPackets == {Rtcp("SR", "", "", 0, ssrcs) : ssrcs \in {<<1>>, <<2>>, <<3>>, <<2, 1>>}}
SdesPackets == {Rtcp("SDES", "", "", 0, ssrcs) : ssrcs \in {<<1>>, <<3, 2>>}}
OtherPackets == {Rtcp("BYE", "", "", 0, <<>>), Rtcp("XR", "", "", 0, <<>>)}
RtcpPackets ==
    ReceiverReportPackets \cup PsFeedbackPackets \cup RtpFeedbackPackets
    \cup SenderReportPackets \cup SdesPackets \cup OtherPackets

\* The packets put in front of another one in a compound: one of a type the
\* switch does not handle, and a Receiver Report with two blocks.
LeadingPackets == {Rtcp("XR", "", "", 0, <<>>), Rtcp("RR", "", "", 0, <<3, 1>>)}

\* The received compounds: one packet, or two.
Compounds ==
    {<<packet>> : packet \in RtcpPackets}
    \cup {<<first, packet>> : first \in LeadingPackets, packet \in RtcpPackets}

\* The Consumers the Room adds in the RTCP specification.  Consumer 1 claims
\* ssrc 1 and FEC ssrc 2 (its RTX ssrc 3 is not present), or two encodings;
\* Consumer 2 claims ssrc 3 and RTX ssrc 1, or has no encoding.
RtcpConsumers ==
    [c \in ConsumerIds |->
        IF c = 1
        THEN {[params |-> Params(<<Enc(1, TRUE, 2, FALSE, 3)>>), active |-> a] :
                 a \in BOOLEAN}
             \cup {[params |-> Params(<<Enc(2, FALSE, 1, FALSE, 1),
                                        Enc(1, FALSE, 3, TRUE, 3)>>), active |-> TRUE]}
        ELSE {[params |-> Params(<<Enc(3, FALSE, 1, TRUE, 1)>>), active |-> TRUE],
              [params |-> Params(<<>>), active |-> TRUE]}]

\* ---------------------------------------------------------------- actions
Alive == ~closed /\ ~crashed

Init ==
    /\ transports = {}
    /\ producers = {}
    /\ consumers = {}
    /\ torder = <<>>
    /\ porder = <<>>
    /\ corder = <<>>
    /\ hasCapabilities = FALSE
    /\ capabilities = {}
    /\ ptrans = [p \in ProducerIds |-> NullTransport]
    /\ pkind = [p \in ProducerIds |-> "NONE"]
    /\ ctrans = [c \in ConsumerIds |-> NullTransport]
    /\ ckind = [c \in ConsumerIds |-> "NONE"]
    /\ cparams = [c \in ConsumerIds |-> NoParams]
    /\ cactive = [c \in ConsumerIds |-> FALSE]
    /\ roomPending = {}
    /\ remb = [t \in TransportIds |-> FALSE]
    /\ tprod = [t \in TransportIds |-> {}]
    /\ heapT = {}
    /\ heapP = {}
    /\ heapC = {}
    /\ timerRunning = TRUE
    /\ closed = FALSE
    /\ crashed = FALSE
    /\ handler = "Peer"
    /\ calls = <<Call("Timer::Start", MaxVideoIntervalMs \div 2, 0, "")>>

\* There is room for one more entity.
Room ==
    Cardinality(heapT) + Cardinality(heapP) + Cardinality(heapC)
        + Cardinality(roomPending) < MaxLive

\* The state after HandleRequest(req) has run to completion in this state.
AfterRequest(req, ok) == HandleRequest(Begin(St, "HandleRequest"), req, ok)

\* The state after Transport t has closed by itself in this state.
AfterTransportCloses(t) == TransportDestroy(Begin(St, "OnTransportClosed"), t)

\* The Channel delivers a request to Peer::HandleRequest.
Request(req, ok) ==
    /\ Alive
    /\ req.methodId \in {"PEER_CREATE_TRANSPORT", "PEER_CREATE_PRODUCER"} => Room
    /\ \E after \in {AfterRequest(req, ok)} : Becomes(after)

\* A Producer appears on another Peer before this Peer has capabilities: the
\* Room will add its Consumer inside OnPeerCapabilities.
RoomGetsProducer(c) ==
    /\ Alive
    /\ Room
    /\ ~hasCapabilities
    /\ c \notin heapC \cup roomPending
    /\ \E after \in {[Begin(St, "Room") EXCEPT !.roomPending = @ \cup {c}]} :
          Becomes(after)

\* The Room installs a new Consumer for a Producer that appeared on another
\* Peer (the Room does this only for Peers that have capabilities; before,
\* the Consumer is pending); cp.params are its RTP parameters and cp.active
\* its active flag.
RoomAddsConsumer(c, kind, cp) ==
    /\ Alive
    /\ Room
    /\ hasCapabilities
    /\ \E after \in {AddConsumer(Begin(St, "AddConsumer"), c, kind, cp.params, cp.active)} :
          Becomes(after)

\* The Room destroys a Consumer (its source Producer closed).
RoomClosesConsumer(c) ==
    /\ Alive
    /\ c \in heapC
    /\ \E after \in {ConsumerDestroy(Begin(St, "OnConsumerClosed"), c)} : Becomes(after)

\* A Transport closes by itself (DTLS closed or failed).
TransportCloses(t) ==
    /\ Alive
    /\ t \in heapT
    /\ \E after \in {AfterTransportCloses(t)} : Becomes(after)

\* A Transport reports that it is connected.
TransportConnects(t) ==
    /\ Alive
    /\ t \in heapT
    /\ \E after \in {OnTransportConnected(Begin(St, "OnTransportConnected"), t)} : Becomes(after)

\* A Transport asks for a full frame (its remote side sent PLI or FIR).
TransportNeedsFullFrame(t) ==
    /\ Alive
    /\ t \in heapT
    /\ \E after \in {OnTransportFullFrameRequired(
                          Begin(St, "OnTransportFullFrameRequired"), t)} : Becomes(after)

\* A Consumer asks for a full frame of its source.
ConsumerNeedsFullFrame(c) ==
    /\ Alive
    /\ c \in heapC
    /\ \E after \in {OnConsumerFullFrameRequired(
                          Begin(St, "OnConsumerFullFrameRequired"), c)} : Becomes(after)

\* A Producer received an RTP packet.
ProducerReceivesRtp(p) ==
    /\ Alive
    /\ p \in heapP
    /\ \E after \in {OnRtpPacket(Begin(St, "OnRtpPacket"), p)} : Becomes(after)

\* A Producer of the Transport negotiated REMB: Transport::EnableRemb().
TransportGetsRemb(t) ==
    /\ Alive
    /\ t \in heapT
    /\ ~remb[t]
    /\ \E after \in {TransportEnableRemb(Begin(St, "EnableRemb"), t)} : Becomes(after)

\* The RTCP timer fires.
TimerFires(tick) ==
    /\ timerRunning
    /\ ~crashed
    /\ \E after \in {OnTimer(Begin(St, "OnTimer"), tick)} : Becomes(after)

\* The Room destroys the Peer.
RoomClosesPeer ==
    /\ Alive
    /\ \E after \in {Destroy(Begin(St, "Destroy"))} : Becomes(after)

\* One step, with the inputs drawn from the given sets.
NextOver(reqs, cids, ckinds, cps, tids, ticks) ==
    \/ \E req \in reqs : \E ok \in OkInputs(req) : Request(req, ok)
    \/ \E c \in cids : RoomGetsProducer(c)
    \/ \E c \in cids, kind \in ckinds : \E cp \in cps[c] : RoomAddsConsumer(c, kind, cp)
    \/ \E c \in cids : RoomClosesConsumer(c)
    \/ \E t \in tids : TransportCloses(t)
    \/ \E t \in tids : TransportConnects(t)
    \/ \E t \in tids : TransportGetsRemb(t)
    \/ \E t \in tids : TransportNeedsFullFrame(t)
    \/ \E c \in cids : ConsumerNeedsFullFrame(c)
    \/ \E p \in ProducerIds : ProducerReceivesRtp(p)
    \/ \E tick \in ticks : TimerFires(tick)
    \/ RoomClosesPeer

\* One method per code path of the switch (the other methods of a delegated
\* group take the same path through Peer).
PathMethods ==
    PeerMethods \cup OtherMethods
    \cup {"TRANSPORT_CLOSE", "TRANSPORT_SET_REMOTE_DTLS_PARAMETERS", "PRODUCER_CLOSE",
          "PRODUCER_RECEIVE", "PRODUCER_SET_TRANSPORT", "CONSUMER_DISABLE",
          "CONSUMER_SET_TRANSPORT"}

Requests ==
    {req \in RequestsOver(TransportIds \cup {NotUInt}, ProducerIds \cup {NotUInt},
                          ConsumerIds \cup {NotUInt}, {"video", "bogus", NoKind},
                          {{"opus"}, {Malformed}}) : req.methodId \in PathMethods}

\* The Consumers the Room adds in the registry specifications: active, one
\* encoding each.
PlainConsumers ==
    [c \in ConsumerIds |-> {[params |-> PendingParams(c), active |-> TRUE]}]

Next == NextOver(Requests, ConsumerIds, {"VIDEO"}, PlainConsumers, TransportIds, Ticks)

Spec == Init /\ [][Next]_vars

\* Two ids and every capabilities payload: the capabilities life cycle.
RequestsCaps ==
    {req \in RequestsOver({1, NotUInt}, {1, NotUInt}, {1, NotUInt},
                          KindInputs, CapsInputs) : req.methodId \in PathMethods}

NextCaps == NextOver(RequestsCaps, {1}, {"AUDIO"}, PlainConsumers, {1}, Ticks)

SpecCaps == Init /\ [][NextCaps]_vars

\* The state after the compound has been handed to OnTransportRtcpPacket by
\* Transport t in this state.
AfterRtcp(t, packets) ==
    OnTransportRtcpPacket(Begin(St, "OnTransportRtcpPacket"), t, packets)

\* A Transport received a compound RTCP packet.
TransportReceivesRtcp(t, packets) ==
    /\ Alive
    /\ t \in heapT
    /\ \E after \in {AfterRtcp(t, packets)} : Becomes(after)

\* The requests of the RTCP specification: capabilities, two Transports, a
\* Producer on each, and the Producers' RTP parameters.
RequestsRtcp ==
    {Req("PEER_SET_CAPABILITIES", NotUInt, NotUInt, NotUInt, NoKind, {"opus"})}
    \cup {Req("PEER_CREATE_TRANSPORT", t, NotUInt, NotUInt, NoKind, {}) : t \in TransportIds}
    \cup {Req("PEER_CREATE_PRODUCER", t, t, NotUInt, "video", {}) : t \in TransportIds}
    \cup {Req("PRODUCER_RECEIVE", NotUInt, p, NotUInt, NoKind, {}) : p \in ProducerIds}

NextRtcp ==
    \/ NextOver(RequestsRtcp, ConsumerIds, {"VIDEO"}, RtcpConsumers, {1},
                {TickOf(1, 1, 100, 1000000, 10)})
    \/ \E t \in TransportIds : \E packets \in Compounds : TransportReceivesRtcp(t, packets)

SpecRtcp == Init /\ [][NextRtcp]_vars

\* ------------------------------------------------------------ RTCP timer
\* The state after the timer has fired in this state with these answers.
AfterTimer(tick) == OnTimer(Begin(St, "OnTimer"), tick)

\* What one Consumer or Producer adds to the compound when asked: nothing, a
\* report that fits, or a report larger than the RTCP buffer.
NoReport == [n |-> 0, size |-> 0]
SmallReport == [n |-> 1, size |-> 100]
BigReport == [n |-> 1, size |-> BufferSize + 1]
Reports == {NoReport, SmallReport, BigReport}

\* A tick: cr[c] and pr[p] are the reports of the Consumers and Producers,
\* rates[c] the transmission rates in bits/s, k the random factor.
Tick(cr, pr, rates, k) ==
    [sr |-> [c \in ConsumerIds |-> cr[c].n], csize |-> [c \in ConsumerIds |-> cr[c].size],
     rr |-> [p \in ProducerIds |-> pr[p].n], psize |-> [p \in ProducerIds |-> pr[p].size],
     rate |-> [c \in ConsumerIds |-> rates[c]], k |-> k]

\* Rates (bits/s) on both sides of every branch of the interval computation:
\* the 500 and 1500 kbps of the example, less than 1 kbps, a rate whose
\* interval is odd, a rate above the clamp, and rates of 200 and 400 Mbps.
RateInputs ==
    {<<500000, 1500000>>, <<0, 999>>, <<1988500, 500>>, <<100000, 100000>>,
     <<200000000, 0>>, <<400000000, 0>>}
RandomInputs == {5, 10, 13, 15}
ReportInputs ==
    {<<cr, pr>> \in [ConsumerIds -> Reports] \X
                    {<<NoReport, NoReport>>, <<SmallReport, SmallReport>>,
                     <<BigReport, SmallReport>>, <<SmallReport, BigReport>>} : TRUE}

TimerTicks ==
    {Tick(<<SmallReport, SmallReport>>, <<SmallReport, SmallReport>>, rates, k) :
        rates \in RateInputs, k \in RandomInputs}
    \cup {Tick(rep[1], rep[2], <<500000, 1500000>>, 10) : rep \in ReportInputs}

\* The requests of the timer specification: capabilities, two Transports, a
\* Producer on each, and the binding of the Consumers.
RequestsTimer ==
    {Req("PEER_SET_CAPABILITIES", NotUInt, NotUInt, NotUInt, NoKind, {"opus"})}
    \cup {Req("PEER_CREATE_TRANSPORT", t, NotUInt, NotUInt, NoKind, {}) : t \in TransportIds}
    \cup {Req("PEER_CREATE_PRODUCER", t, t, NotUInt, "video", {}) : t \in TransportIds}
    \cup {Req("CONSUMER_SET_TRANSPORT", t, NotUInt, c, NoKind, {}) :
             t \in TransportIds, c \in ConsumerIds}

NextTimer ==
    NextOver(RequestsTimer, ConsumerIds, {"VIDEO"}, PlainConsumers, TransportIds, TimerTicks)

SpecTimer == Init /\ [][NextTimer]_vars

\* ---------------------------------------------------- transport connects
\* The state after Transport t has reported that it is connected.
AfterConnected(t) == OnTransportConnected(Begin(St, "OnTransportConnected"), t)

\* The requests of the connect specification: capabilities, two Transports,
\* a Producer of either kind on the first one, and the binding of the
\* Consumers.
RequestsConnect ==
    {Req("PEER_SET_CAPABILITIES", NotUInt, NotUInt, NotUInt, NoKind, {"opus"})}
    \cup {Req("PEER_CREATE_TRANSPORT", t, NotUInt, NotUInt, NoKind, {}) : t \in TransportIds}
    \cup {Req("PEER_CREATE_PRODUCER", 1, 1, NotUInt, kind, {}) : kind \in {"video", "audio"}}
    \cup {Req("CONSUMER_SET_TRANSPORT", t, NotUInt, c, NoKind, {}) :
             t \in TransportIds, c \in ConsumerIds}

\* Consumers of every kind.
NextConnect ==
    NextOver(RequestsConnect, ConsumerIds, ConsumerKinds, PlainConsumers, TransportIds,
             {TickOf(1, 1, 100, 1000000, 10)})

SpecConnect == Init /\ [][NextConnect]_vars

\* =================================================================== claims
Replies(cs) == CountCalls(cs, "Accept") + CountCalls(cs, "Reject")
RejectWith(reason) == <<Call("Reject", 0, 0, reason)>>
Has(cs, c) == \E i \in 1..Len(cs) : cs[i].c = c
HasCall(cs, c, a, b) == \E i \in 1..Len(cs) : cs[i].c = c /\ cs[i].a = a /\ cs[i].b = b
Indices(cs, c) == {i \in 1..Len(cs) : cs[i].c = c}

\* C1: every request passed to HandleRequest ends with exactly one Accept or
\* exactly one Reject, and no error leaves the handler.
C1_ExactlyOneReply ==
    handler = "HandleRequest" => Replies(calls) = 1 /\ ~Has(calls, "Throw")

SetCapabilitiesRequests ==
    {Req("PEER_SET_CAPABILITIES", NotUInt, NotUInt, NotUInt, NoKind, caps) :
        caps \in CapsInputs}

C2_LaterSetRejected ==
    (Alive /\ hasCapabilities) =>
        \A req \in SetCapabilitiesRequests :
           LET r == AfterRequest(req, TRUE)
           IN /\ r.calls = RejectWith("peer capabilities already set")
              /\ r.capabilities = capabilities
              /\ r.hasCapabilities

\* C2: once hasCapabilities is true it stays true, and every later
\* PEER_SET_CAPABILITIES is rejected with "peer capabilities already set",
\* leaves the stored capabilities as they are and does not call
\* OnPeerCapabilities.
C2_CapabilitiesSetOnce ==
    /\ []C2_LaterSetRejected
    /\ [][hasCapabilities => hasCapabilities']_vars

\* A second PEER_SET_CAPABILITIES was rejected while other capabilities are stored.
C2_Witness ==
    /\ handler = "HandleRequest"
    /\ calls = RejectWith("peer capabilities already set")
    /\ hasCapabilities
    /\ capabilities = {"vp8"}

CreateProducerRequests ==
    {Req("PEER_CREATE_PRODUCER", t, p, NotUInt, kind, {}) :
        t \in TransportIds \cup {NotUInt}, p \in ProducerIds \cup {NotUInt},
        kind \in KindInputs}

\* C3: PEER_CREATE_PRODUCER while hasCapabilities is false is rejected with
\* "peer capabilities are not yet set" whatever it carries and adds no
\* Producer; so Producers exist only once capabilities are set.
C3_ProducerNeedsCapabilities ==
    /\ (Alive /\ ~hasCapabilities) =>
          \A req \in CreateProducerRequests :
             LET r == AfterRequest(req, TRUE)
             IN /\ r.calls = RejectWith("peer capabilities are not yet set")
                /\ r.producers = producers
                /\ r.heapP = heapP
    /\ producers # {} => hasCapabilities

\* A PEER_CREATE_PRODUCER naming an existing Transport was refused before
\* the capabilities were set.
C3_Witness ==
    /\ handler = "HandleRequest"
    /\ calls = RejectWith("peer capabilities are not yet set")
    /\ ~hasCapabilities
    /\ transports # {}
    /\ producers = {}

\* C4: in every reachable state the Transport reference of each Producer and
\* each Consumer is unset or refers to a Transport that is in `transports`
\* (and still exists).
C4_TransportReferenceIntegrity ==
    /\ \A p \in producers :
          ptrans[p] = NullTransport \/ (ptrans[p] \in transports /\ ptrans[p] \in heapT)
    /\ \A c \in consumers :
          ctrans[c] = NullTransport \/ (ctrans[c] \in transports /\ ctrans[c] \in heapT)

\* A Transport closed by itself while a Consumer and a Producer were bound:
\* both survive, one of them now unbound and one still bound elsewhere.
C4_Witness ==
    /\ handler = "OnTransportClosed"
    /\ \E c \in consumers : ctrans[c] = NullTransport
    /\ \E p \in producers : ptrans[p] # NullTransport

TransportCloseRequest(t) == Req("TRANSPORT_CLOSE", t, NotUInt, NotUInt, NoKind, {})

CanRebind(s) ==
    /\ \A p \in s.producers, t \in s.transports :
          LET r == HandleRequest(Begin(s, "HandleRequest"),
                                 Req("PRODUCER_SET_TRANSPORT", t, p, NotUInt, NoKind, {}),
                                 TRUE)
          IN r.calls[Len(r.calls)].c = "Accept" /\ r.ptrans[p] = t
    /\ \A c \in s.consumers, t \in s.transports :
          LET r == HandleRequest(Begin(s, "HandleRequest"),
                                 Req("CONSUMER_SET_TRANSPORT", t, NotUInt, c, NoKind, {}),
                                 TRUE)
          IN r.calls[Len(r.calls)].c = "Accept" /\ r.ctrans[c] = t

\* r is the state OnTransportClosed(t) leaves when it runs in this state.
ClosedFrame(r, t) ==
    /\ r.transports = transports \ {t}
    /\ r.producers = producers
    /\ r.consumers = consumers
    /\ \A p \in producers :
          r.ptrans[p] = IF ptrans[p] = t THEN NullTransport ELSE ptrans[p]
    /\ \A c \in consumers :
          r.ctrans[c] = IF ctrans[c] = t THEN NullTransport ELSE ctrans[c]
    /\ CanRebind(r)

\* C5: after OnTransportClosed(T), T is absent from `transports`, no Producer
\* or Consumer reports T, the sets of Producers and Consumers and the
\* references to other Transports are unchanged, and every survivor can be
\* bound to another existing Transport by PRODUCER/CONSUMER_SET_TRANSPORT.
C5_TransportClosedFrame ==
    Alive =>
        \A t \in transports :
           /\ ClosedFrame(AfterTransportCloses(t), t)
           /\ ClosedFrame(AfterRequest(TransportCloseRequest(t), TRUE), t)

\* TRANSPORT_CLOSE was accepted; a Producer lost its Transport and survives, a
\* Consumer is still bound to the other Transport.
C5_Witness ==
    /\ handler = "HandleRequest"
    /\ Has(calls, "Transport::Destroy")
    /\ \E p \in producers : ptrans[p] = NullTransport
    /\ \E c \in consumers : ctrans[c] # NullTransport

Destroyed(cs, c, id) == Cardinality({i \in Indices(cs, c) : cs[i].a = id})

C6_DestroyStep ==
    (~closed /\ closed') =>
        /\ \A i \in Indices(calls', "Producer::Destroy"),
              j \in Indices(calls', "Consumer::Destroy") : i < j
        /\ \A j \in Indices(calls', "Producer::Destroy") \cup Indices(calls', "Consumer::Destroy"),
              k \in Indices(calls', "Transport::Destroy") : j < k
        /\ \A p \in ProducerIds :
              Destroyed(calls', "Producer::Destroy", p) = IF p \in producers THEN 1 ELSE 0
        /\ \A c \in ConsumerIds :
              Destroyed(calls', "Consumer::Destroy", c) = IF c \in consumers THEN 1 ELSE 0
        /\ \A t \in TransportIds :
              Destroyed(calls', "Transport::Destroy", t) = IF t \in transports THEN 1 ELSE 0
        /\ \A i \in 1..Len(calls') : calls'[i].s # "use-after-free"
        /\ heapP' = {} /\ heapC' = {} /\ heapT' = {}
        /\ \E n \in 1..Len(calls') :
              /\ calls'[n] = Call("Emit", 0, 0, "close")
              /\ calls'[n + 1] = Call("OnPeerClosed", 0, 0, "")
              /\ \A i \in Indices(calls', "Producer::Destroy")
                        \cup Indices(calls', "Consumer::Destroy")
                        \cup Indices(calls', "Transport::Destroy")
                        \cup Indices(calls', "OnPeerProducerClosed")
                        \cup Indices(calls', "OnPeerConsumerClosed")
                        \cup Indices(calls', "Transport::RemoveProducer") : i < n
              /\ \A i \in (n + 2)..Len(calls') : calls'[i].c = "Accept"
        /\ CountCalls(calls', "OnPeerClosed") = 1

\* C6: Destroy destroys every Producer before any Consumer and every Consumer
\* before any Transport, each child exactly once and while every Transport the
\* close events reach is alive; then emits "close" and, last, calls OnPeerClosed.
C6_DestroyOrder == [][C6_DestroyStep]_vars

\* The Room destroyed a Peer that held two Producers, a Consumer and a Transport.
C6_Witness ==
    /\ closed
    /\ handler = "Destroy"
    /\ CountCalls(calls, "Producer::Destroy") = 2
    /\ CountCalls(calls, "Consumer::Destroy") = 1
    /\ CountCalls(calls, "Transport::Destroy") = 1
    /\ Has(calls, "Transport::RemoveProducer")

PeerCloseRequest == Req("PEER_CLOSE", NotUInt, NotUInt, NotUInt, NoKind, {})

C7_CloseAccepted ==
    Alive =>
        LET r == AfterRequest(PeerCloseRequest, TRUE)
        IN /\ r.closed
           /\ ~r.timerRunning
           /\ CountCalls(r.calls, "OnPeerClosed") = 1
           /\ CountCalls(r.calls, "Accept") = 1
           /\ r.calls[Len(r.calls)].c = "Accept"
           /\ ~Has(r.calls, "Reject") /\ ~Has(r.calls, "Throw")

\* C7: PEER_CLOSE is accepted whatever the Peer owns, the Room receives
\* OnPeerClosed exactly once, and no timer tick fires once the Peer is closed.
C7_PeerClose ==
    /\ []C7_CloseAccepted
    /\ [](closed => handler # "OnTimer" /\ ~Has(calls, "Timer::Start")
                    /\ ~Has(calls, "SendRtcpCompoundPacket"))
    /\ [][closed => UNCHANGED vars]_vars

\* PEER_CLOSE was accepted by a Peer that held a Transport, a Producer and a
\* Consumer.
C7_Witness ==
    /\ closed
    /\ handler = "HandleRequest"
    /\ calls[Len(calls)].c = "Accept"
    /\ Has(calls, "Producer::Destroy")
    /\ Has(calls, "Consumer::Destroy")
    /\ Has(calls, "Transport::Destroy")

Elements(seq) == {seq[i] : i \in 1..Len(seq)}

\* C8: on a live Peer the Transports, Producers and Consumers that PEER_DUMP
\* reports are exactly the entities created and not yet closed, each listed
\* once, in the array of its own kind.  (Ids are per kind: the three maps are
\* keyed separately, so Transport 1 and Producer 1 are different entities.)
C8_ExclusiveOwnership ==
    ~closed =>
        LET dump == ToJson(St)
        IN /\ Elements(dump.transports) = heapT
           /\ Len(dump.transports) = Cardinality(heapT)
           /\ Elements(dump.producers) = heapP
           /\ Len(dump.producers) = Cardinality(heapP)
           /\ Elements(dump.consumers) = heapC
           /\ Len(dump.consumers) = Cardinality(heapC)

\* PRODUCER_CLOSE was accepted while another Producer, a Transport and a
\* Consumer stay.
C8_Witness ==
    /\ ~closed
    /\ handler = "HandleRequest"
    /\ Has(calls, "Producer::Destroy")
    /\ producers # {}
    /\ transports # {}
    /\ consumers # {}

SetTransportRequest(t, p) == Req("PRODUCER_SET_TRANSPORT", t, p, NotUInt, NoKind, {})

\* C9: an accepted PRODUCER_SET_TRANSPORT makes the target the Producer's
\* Transport; it enables REMB on the target when the Producer's previous
\* Transport had REMB, and otherwise leaves the target's REMB state alone.
C9_RembCarryOver ==
    Alive =>
        \A p \in producers, t \in transports :
           LET r == AfterRequest(SetTransportRequest(t, p), TRUE)
               previous == ptrans[p]
           IN /\ r.calls[Len(r.calls)].c = "Accept"
              /\ r.ptrans[p] = t
              /\ r.remb[t] = IF previous # NullTransport /\ remb[previous]
                             THEN TRUE ELSE remb[t]
              /\ \A u \in TransportIds \ {t} : r.remb[u] = remb[u]

\* A Producer registered with a REMB-enabled Transport was moved to the other
\* Transport, on which the request enabled REMB.
C9_Witness ==
    /\ handler = "HandleRequest"
    /\ \E p \in producers, t \in transports, u \in transports :
          /\ u # t
          /\ remb[u]
          /\ p \in tprod[u]
          /\ ptrans[p] = t
          /\ remb[t]
          /\ calls = <<Call("Transport::AddProducer", t, p, ""),
                       Call("Transport::EnableRemb", t, 0, ""),
                       Call("Producer::SetTransport", p, t, ""),
                       Call("Accept", 0, 0, "")>>

\* C10: PRODUCER_SET_TRANSPORT calls AddProducer on the target before it
\* updates the Producer's Transport; when AddProducer fails the request is
\* rejected, the Producer keeps its previous Transport (or none) and REMB is
\* not enabled on the target.
C10_AddProducerFirst ==
    Alive =>
        \A p \in producers, t \in transports :
           LET bad == AfterRequest(SetTransportRequest(t, p), FALSE)
               good == AfterRequest(SetTransportRequest(t, p), TRUE)
           IN /\ bad.calls = RejectWith("AddProducer error")
              /\ bad.ptrans = ptrans
              /\ bad.remb = remb
              /\ \E i, j \in 1..Len(good.calls) :
                    /\ i < j
                    /\ good.calls[i] = Call("Transport::AddProducer", t, p, "")
                    /\ good.calls[j] = Call("Producer::SetTransport", p, t, "")

\* AddProducer failed on a Transport without REMB while the Producer is bound
\* to the other Transport, which has REMB: the Producer still reports it.
C10_Witness ==
    /\ handler = "HandleRequest"
    /\ calls = RejectWith("AddProducer error")
    /\ \E p \in producers, t \in transports :
          /\ ptrans[p] # NullTransport
          /\ ptrans[p] # t
          /\ remb[ptrans[p]]
          /\ ~remb[t]
\* The reasons of the rejections Peer::HandleRequest issues itself (the other
\* rejections come from the Transport, Producer or Consumer the request is
\* delegated to).
PeerRejectReasons ==
    {"peer capabilities already set", "invalid capabilities",
     "peer capabilities are not yet set",
     "Request has not numeric internal.transportId",
     "Request has not numeric internal.producerId",
     "Request has not numeric internal.consumerId",
     "Transport already exists", "Transport constructor error",
     "Producer already exists", "invalid kind",
     "Transport does not exist", "Producer does not exist",
     "Consumer does not exist", "unknown method"}

RejectedByPeer(r) ==
    /\ Len(r.calls) > 0
    /\ r.calls[Len(r.calls)].c = "Reject"
    /\ r.calls[Len(r.calls)].s \in PeerRejectReasons

\* C11: a request that the Peer itself rejects leaves the three mappings,
\* hasCapabilities, the capabilities, every Transport reference and the
\* owned objects as they were, and the Reject is the only outgoing call (no
\* notification, no Room up-call).
C11_RejectLeavesState ==
    Alive =>
        \A req \in RequestsCaps : \A ok \in BOOLEAN :
           LET r == AfterRequest(req, ok)
           IN RejectedByPeer(r) =>
                 r = [St EXCEPT !.handler = "HandleRequest",
                                !.calls = RejectWith(r.calls[Len(r.calls)].s)]

\* A second PEER_CREATE_PRODUCER with the id of the stored Producer was
\* rejected while the Peer owned a Transport, the Producer bound to it and a
\* Consumer.
C11_Witness ==
    /\ handler = "HandleRequest"
    /\ calls = RejectWith("Producer already exists")
    /\ transports # {}
    /\ \E p \in producers : ptrans[p] # NullTransport
    /\ consumers # {}

\* The log cs ends with Accept, and before it holds the OnPeerCapabilities
\* up-call followed by one "newconsumer" notification for each Consumer of
\* pending, and nothing else.
NotifiedBeforeAccept(cs, pending) ==
    /\ Len(cs) = Cardinality(pending) + 2
    /\ cs[1].c = "OnPeerCapabilities"
    /\ cs[Len(cs)].c = "Accept"
    /\ \A c \in pending :
          \E i \in 2..(Len(cs) - 1) : cs[i] = Call("Emit", c, 0, "newconsumer")

\* C12: when PEER_SET_CAPABILITIES is accepted, the OnPeerCapabilities
\* up-call and every AddConsumer / "newconsumer" the Room performs inside it
\* come before the Accept, and at the Accept every such Consumer is in
\* `consumers`.
C12_NotifyBeforeAccept ==
    (Alive /\ ~hasCapabilities) =>
        \A req \in SetCapabilitiesRequests :
           LET r == AfterRequest(req, TRUE)
           IN Malformed \notin req.caps =>
                 /\ NotifiedBeforeAccept(r.calls, roomPending)
                 /\ r.consumers = consumers \cup roomPending
                 /\ r.hasCapabilities

\* PEER_SET_CAPABILITIES was accepted after the Room added two Consumers
\* inside the up-call.
C12_Witness ==
    /\ handler = "HandleRequest"
    /\ Len(calls) = 4
    /\ calls[1].c = "OnPeerCapabilities"
    /\ calls[2] = Call("Emit", 1, 0, "newconsumer")
    /\ calls[3] = Call("Emit", 2, 0, "newconsumer")
    /\ calls[4].c = "Accept"
    /\ consumers = {1, 2}

\* C13: AddConsumer for a consumerId that is not in `consumers` stores the
\* Consumer under its id and emits exactly one "newconsumer" notification
\* for it; for a consumerId already in `consumers` it fails an assertion and
\* leaves the existing entry (and everything else) as it was.
C13_AddConsumer ==
    (Alive /\ Room) =>
        \A c \in ConsumerIds, kind \in ConsumerKinds : \A cp \in PlainConsumers[c] :
           LET r == AddConsumer(Begin(St, "AddConsumer"), c, kind, cp.params, cp.active)
           IN IF c \in consumers
              THEN r = [St EXCEPT !.handler = "AddConsumer", !.calls = <<>>,
                                  !.crashed = TRUE]
              ELSE /\ r.consumers = consumers \cup {c}
                   /\ r.ckind[c] = kind
                   /\ r.cparams[c] = cp.params
                   /\ r.calls = <<Call("Emit", c, 0, "newconsumer")>>
                   /\ ~r.crashed

\* AddConsumer was called with the id of a stored Consumer: the process
\* aborted and the entry is still the one stored before.
C13_Witness ==
    /\ handler = "AddConsumer"
    /\ crashed
    /\ calls = <<>>
    /\ consumers = {1, 2}

\* The SSRCs an encoding carries: the primary one, the FEC one when present,
\* the RTX one when present.
EncodingSsrcs(e) ==
    {e.ssrc} \cup (IF e.hasFec THEN {e.fec} ELSE {}) \cup (IF e.hasRtx THEN {e.rtx} ELSE {})

\* The SSRC set of Consumer c in state s.
SsrcSet(s, c) ==
    IF s.cparams[c].has
    THEN UNION {EncodingSsrcs(s.cparams[c].encodings[i]) :
                   i \in DOMAIN s.cparams[c].encodings}
    ELSE {}

\* C14: GetConsumer(ssrc) returns a Consumer of `consumers` exactly when some
\* Consumer with RTP parameters has an encoding whose primary, present FEC or
\* present RTX ssrc is ssrc, and the one returned claims ssrc; a Consumer
\* whose parameters are missing is never returned.
C14_GetConsumer ==
    \A ssrc \in Ssrcs :
       LET found == GetConsumer(St, ssrc)
       IN /\ found # 0 <=> \E c \in consumers : ssrc \in SsrcSet(St, c)
          /\ found # 0 => found \in consumers /\ ssrc \in SsrcSet(St, found)
          /\ \A c \in consumers :
                GetConsumer([St EXCEPT !.cparams[c] = NoParams], ssrc) # c

\* A Receiver Report with blocks for ssrc 1 and 2 reached Consumer 1 through
\* its primary and its FEC ssrc, while its RTX ssrc is absent and Consumer 2
\* has no encoding.
C14_Witness ==
    /\ handler = "OnTransportRtcpPacket"
    /\ calls = <<Call("OnPeerRtcpReceiverReport", 1, 1, ""),
                 Call("OnPeerRtcpReceiverReport", 1, 2, "")>>
    /\ consumers = {1, 2}
    /\ cparams[1] = Params(<<Enc(1, TRUE, 2, FALSE, 3)>>)
    /\ cparams[2] = Params(<<>>)

\* C15: the SSRC sets of any two Consumers in `consumers` are disjoint.
C15_SsrcDisjoint ==
    \A c1 \in consumers, c2 \in consumers :
       c1 # c2 => SsrcSet(St, c1) \cap SsrcSet(St, c2) = {}

\* The calls made for packet, received on t, are the same whatever packet
\* precedes it in the compound.
SameAtAnyPosition(t, packet) ==
    \A first \in LeadingPackets :
       AfterRtcp(t, <<first, packet>>).calls
           = AfterRtcp(t, <<first>>).calls \o AfterRtcp(t, <<packet>>).calls

\* Some Consumer of the Peer claims ssrc.
Claimed(ssrc) == \E c \in consumers : ssrc \in SsrcSet(St, c)

\* The state is as before the packet but for the log of calls.
OnlyCalls(r) == r = [St EXCEPT !.handler = "OnTransportRtcpPacket", !.calls = r.calls]

\* C16: for an RR packet at any position of a compound, the Room receives
\* exactly one OnPeerRtcpReceiverReport per report block whose ssrc a
\* Consumer claims, with the Consumer GetConsumer returns, in block order,
\* and nothing for a block no Consumer claims; the blocks after an unclaimed
\* one are still processed.
C16_ReceiverReportDispatch ==
    Alive =>
        \A t \in transports, rr \in ReceiverReportPackets :
           LET r == AfterRtcp(t, <<rr>>)
               claimed == SelectSeq(rr.ssrcs, Claimed)
           IN /\ Len(r.calls) = Len(claimed)
              /\ \A i \in 1..Len(claimed) :
                    /\ r.calls[i] = Call("OnPeerRtcpReceiverReport",
                                         GetConsumer(St, claimed[i]), claimed[i], "")
                    /\ r.calls[i].a \in consumers
                    /\ claimed[i] \in SsrcSet(St, r.calls[i].a)
              /\ OnlyCalls(r)
              /\ SameAtAnyPosition(t, rr)

\* A compound of two Receiver Reports, the first starting with a block for
\* ssrc 3 that no Consumer claims: the three claimed blocks were reported.
C16_Witness ==
    /\ handler = "OnTransportRtcpPacket"
    /\ consumers = {1}
    /\ SsrcSet(St, 1) = {1, 2}
    /\ calls = <<Call("OnPeerRtcpReceiverReport", 1, 1, ""),
                 Call("OnPeerRtcpReceiverReport", 1, 1, ""),
                 Call("OnPeerRtcpReceiverReport", 1, 2, "")>>

PictureFeedback == {"PLI", "SLI", "RPSI", "FIR"}

\* C17: for a PSFB packet of type PLI, SLI, RPSI or FIR the Room receives
\* exactly one OnPeerRtcpFeedback when a Consumer claims the media ssrc and
\* that Consumer is active, and no call otherwise.
C17_PictureFeedback ==
    Alive =>
        \A t \in transports, fb \in PsFeedbackPackets :
           fb.mtype \in PictureFeedback =>
              LET r == AfterRtcp(t, <<fb>>)
                  consumer == GetConsumer(St, fb.mediaSsrc)
              IN /\ IF Claimed(fb.mediaSsrc) /\ cactive[consumer]
                    THEN r.calls = <<Call("OnPeerRtcpFeedback", consumer, fb.mediaSsrc,
                                          fb.mtype)>>
                    ELSE r.calls = <<>>
                 /\ OnlyCalls(r)
                 /\ SameAtAnyPosition(t, fb)

\* A PLI for ssrc 3 was forwarded for the active Consumer 2 while Consumer 1
\* is inactive.
C17_Witness ==
    /\ handler = "OnTransportRtcpPacket"
    /\ calls = <<Call("OnPeerRtcpFeedback", 2, 3, "PLI")>>
    /\ consumers = {1, 2}
    /\ ~cactive[1]
    /\ cactive[2]

\* C18: a PSFB packet of a type other than PLI, SLI, RPSI and FIR (an AFB
\* packet, with REMB or with other application data, or any other type)
\* causes no call at all, even when an active Consumer claims its media ssrc.
C18_OtherPsFeedbackDropped ==
    Alive =>
        \A t \in transports, fb \in PsFeedbackPackets :
           fb.mtype \notin PictureFeedback => AfterRtcp(t, <<fb>>).calls = <<>>

\* C19: a NACK is delivered exactly once, to the Consumer that claims its
\* media ssrc, and to none when no Consumer claims it; no Room up-call is
\* made; RTPFB packets of other types are delivered to no Consumer.
C19_NackDelivery ==
    Alive =>
        \A t \in transports, fb \in RtpFeedbackPackets :
           LET r == AfterRtcp(t, <<fb>>)
               consumer == GetConsumer(St, fb.mediaSsrc)
           IN /\ IF fb.mtype = "NACK" /\ Claimed(fb.mediaSsrc)
                 THEN /\ r.calls = <<Call("Consumer::ReceiveNack", consumer,
                                          fb.mediaSsrc, "")>>
                      /\ consumer \in consumers
                      /\ fb.mediaSsrc \in SsrcSet(St, consumer)
                 ELSE r.calls = <<>>
              /\ OnlyCalls(r)
              /\ SameAtAnyPosition(t, fb)

\* A NACK for ssrc 3 was handed to Consumer 2 and not to Consumer 1.
C19_Witness ==
    /\ handler = "OnTransportRtcpPacket"
    /\ calls = <<Call("Consumer::ReceiveNack", 2, 3, "")>>
    /\ consumers = {1, 2}
    /\ SsrcSet(St, 1) # {}

\* The Producers registered in Transport t that send with ssrc.
Senders(t, ssrc) == {p \in tprod[t] : ProducerSsrc(p) = ssrc}

\* C20: for each report of an SR packet received on Transport T the Room
\* receives exactly one OnPeerRtcpSenderReport when T.GetProducer(ssrc)
\* yields a Producer, and none when the ssrc is known only to another
\* Transport or only to a Consumer; SDES packets cause no call.
C20_SenderReportDispatch ==
    Alive =>
        \A t \in transports :
           /\ \A sr \in SenderReportPackets :
                 LET r == AfterRtcp(t, <<sr>>)
                     known == SelectSeq(sr.ssrcs, LAMBDA ssrc : Senders(t, ssrc) # {})
                 IN /\ Len(r.calls) = Len(known)
                    /\ \A i \in 1..Len(known) :
                          /\ r.calls[i].c = "OnPeerRtcpSenderReport"
                          /\ r.calls[i].a \in Senders(t, known[i])
                          /\ r.calls[i].b = known[i]
                    /\ OnlyCalls(r)
                    /\ SameAtAnyPosition(t, sr)
           /\ \A sdes \in SdesPackets :
                 /\ AfterRtcp(t, <<sdes>>).calls = <<>>
                 /\ SameAtAnyPosition(t, sdes)

\* A Sender Report for ssrc 1 arrived on Transport 2, where only Producer 2
\* is registered: it was not forwarded, the Receiver Report before it was.
C20_Witness ==
    /\ handler = "OnTransportRtcpPacket"
    /\ tprod[1] = {1}
    /\ tprod[2] = {2}
    /\ calls = <<Call("OnPeerRtcpSenderReport", 2, 2, "")>>

\* ------------------------------------------------------------------- C21
\* The kbps the tick summed up: each logged rate divided by 1000, then added.
RECURSIVE LoggedKbps(_)
LoggedKbps(cs) ==
    IF cs = <<>> THEN 0
    ELSE (IF Head(cs).c = "GetTransmissionRate" THEN Head(cs).b \div 1000 ELSE 0)
         + LoggedKbps(Tail(cs))

\* The base interval of the law, from the rates the tick was given.
LawBase ==
    IF consumers = {} \/ LoggedKbps(calls) = 0 THEN MaxVideoIntervalMs
    ELSE IF 360000 \div LoggedKbps(calls) > MaxVideoIntervalMs THEN MaxVideoIntervalMs
    ELSE 360000 \div LoggedKbps(calls)

\* The tick asked every Consumer for its rate, drew k and re-armed the timer
\* last.
TimerLog ==
    /\ Len(calls) >= 2
    /\ calls[Len(calls)].c = "Timer::Start"
    /\ calls[Len(calls) - 1].c = "GetRandomUInt"
    /\ {calls[i].a : i \in Indices(calls, "GetTransmissionRate")} = consumers
    /\ Cardinality(Indices(calls, "GetTransmissionRate")) = Cardinality(consumers)
RandomFactor == calls[Len(calls) - 1].a
Rearmed == calls[Len(calls)].a

\* What the code does keep: the base interval of the law, and a re-arm value
\* that is base * k / 10 truncated to whole milliseconds, or one millisecond
\* less (the product is computed in single precision), for the k drawn.
IntervalLawTruncated ==
    handler = "OnTimer" =>
        /\ TimerLog
        /\ RandomFactor \in 5..15
        /\ Rearmed \in {(LawBase * RandomFactor) \div 10,
                        (LawBase * RandomFactor) \div 10 - 1}

\* C21: on every timer tick, with R the Consumers' rates in kbps summed, the
\* base interval is min(MaxVideoIntervalMs, 360000 / R) when Consumers exist
\* and R is not 0, and MaxVideoIntervalMs otherwise, and the timer is re-armed
\* with base * k / 10 for some integer k in 5..15, hence with a value in
\* [0.5, 1.5] * base.
C21_IntervalLaw ==
    handler = "OnTimer" =>
        /\ TimerLog
        /\ \E k \in 5..15 : 10 * Rearmed = LawBase * k

\* ------------------------------------------------------------------- C22
Sends(cs) == Indices(cs, "SendRtcpCompoundPacket")
IsGetRtcp(call) == call.c \in {"Consumer::GetRtcp", "Producer::GetRtcp"}

\* The GetRtcp calls that put a report into the compound sent at index i:
\* those since the compound before it was sent.
Contributors(cs, i) ==
    {j \in 1..(i - 1) : /\ IsGetRtcp(cs[j])
                        /\ cs[j].sr + cs[j].rr > 0
                        /\ \A n \in Sends(cs) : ~(j < n /\ n < i)}

\* The sum of one field ("sr", "rr" or "b") over the calls at indices js.
RECURSIVE SumOver(_, _, _)
SumOver(cs, js, field) ==
    IF js = {} THEN 0
    ELSE LET j == CHOOSE x \in js : TRUE
         IN cs[j][field] + SumOver(cs, js \ {j}, field)

\* C22: every compound handed to Transport::SendRtcpCompoundPacket during a
\* tick holds at most one Sender Report and at least one Sender or Receiver
\* Report, is not larger than the RTCP buffer, holds exactly what the
\* Consumers and Producers asked since the previous compound put into it, and
\* goes to the Transport those Consumers and Producers are bound to.
C22_CompoundLayout ==
    handler = "OnTimer" =>
        \A i \in Sends(calls) :
            LET from == Contributors(calls, i)
            IN /\ calls[i].sr <= 1
               /\ calls[i].sr + calls[i].rr >= 1
               /\ calls[i].b <= BufferSize
               /\ calls[i].sr = SumOver(calls, from, "sr")
               /\ calls[i].rr = SumOver(calls, from, "rr")
               /\ calls[i].b = SumOver(calls, from, "b")
               /\ \A j \in from :
                     IF calls[j].c = "Consumer::GetRtcp"
                     THEN calls[j].a \in consumers /\ ctrans[calls[j].a] = calls[i].a
                     ELSE calls[j].a \in producers /\ ptrans[calls[j].a] = calls[i].a

\* A tick that sent a compound with one Sender Report and, on the same
\* Transport, a compound with a Receiver Report.
C22_Witness ==
    /\ handler = "OnTimer"
    /\ \E i, j \in Sends(calls) :
          /\ i < j
          /\ calls[i].a = calls[j].a
          /\ calls[i].sr = 1 /\ calls[i].rr = 0
          /\ calls[j].sr = 0 /\ calls[j].rr = 1

\* ------------------------------------------------------------------- C23
\* C23: OnTransportConnected(T) makes exactly one OnFullFrameRequired up-call
\* for each Consumer of kind video or depth whose Transport is T, none for any
\* other Consumer (audio, bound to another Transport, or unbound), and nothing
\* else.
C23_FullFrameOnConnect ==
    \A t \in heapT :
        LET r == AfterConnected(t)
        IN /\ \A i \in 1..Len(r.calls) : r.calls[i].c = "OnFullFrameRequired"
           /\ \A c \in ConsumerIds :
                 Cardinality({i \in 1..Len(r.calls) : r.calls[i].a = c})
                     = IF /\ c \in consumers
                          /\ ckind[c] \in {"VIDEO", "DEPTH"}
                          /\ ctrans[c] = t
                       THEN 1 ELSE 0
           /\ [r EXCEPT !.calls = <<>>] = Begin(St, "OnTransportConnected")

\* A Transport with a depth and an audio Consumer connected: one up-call, for
\* the depth Consumer.
C23_Witness ==
    /\ handler = "OnTransportConnected"
    /\ \E c, d \in consumers :
          /\ ckind[c] = "DEPTH"
          /\ ckind[d] = "AUDIO"
          /\ ctrans[c] # NullTransport
          /\ ctrans[d] = ctrans[c]
          /\ calls = <<Call("OnFullFrameRequired", c, 0, "")>>

\* ------------------------------------------------------------------- C24
Asked(cs, c, a) == \E i \in 1..Len(cs) : cs[i].c = c /\ cs[i].a = a

\* C24: whatever compound of a tick is too large for the RTCP buffer, every
\* Consumer and every Producer bound to a Transport of the Peer is still asked
\* for its RTCP in that tick, and a Sender Report that fits is sent.
C24_OversizeSkipsOwnSend ==
    handler = "OnTimer" =>
        /\ \A c \in consumers :
              ctrans[c] \in transports => Asked(calls, "Consumer::GetRtcp", c)
        /\ \A p \in producers :
              ptrans[p] \in transports => Asked(calls, "Producer::GetRtcp", p)
        /\ \A i \in Indices(calls, "Consumer::GetRtcp") :
              calls[i].sr = 1 /\ calls[i].b <= BufferSize
                  => calls[i + 1].c = "SendRtcpCompoundPacket"

\* ------------------------------------------------------------------- C25
\* The timer was started at construction with half the maximum interval,
\* every tick re-arms it exactly once, as its last step, and it is running
\* as long as the Peer is not closed.
TimerRearmedOnce ==
    /\ handler = "Peer" => calls = <<Call("Timer::Start", MaxVideoIntervalMs \div 2, 0, "")>>
    /\ handler = "OnTimer" =>
          /\ CountCalls(calls, "Timer::Start") = 1
          /\ calls[Len(calls)].c = "Timer::Start"
    /\ ~closed => timerRunning

\* C25: the timer is started at construction with MaxVideoIntervalMs / 2 and
\* every tick re-arms it exactly once with a strictly positive interval,
\* whatever the Peer holds and whatever was dropped, so that the timer runs
\* as long as the Peer is not closed.
C25_TimerKeepsRunning ==
    /\ TimerRearmedOnce
    /\ handler = "OnTimer" => calls[Len(calls)].a > 0

\* ------------------------------------------------------------------- C26
\* The Transports of the Peer that hold Producer p.
Holders(p) == {t \in transports : p \in tprod[t]}

\* C26: a Producer is held by at most one Transport, and only by its current
\* Transport; a Sender Report for its ssrc that arrives on another Transport
\* is not attributed to it; a closed Producer is held by no Transport.
C26_OneTransportPerProducer ==
    /\ \A p \in producers : Holders(p) \subseteq {ptrans[p]}
    /\ \A p \in ProducerIds \ producers : Holders(p) = {}
    /\ \A p \in producers : \A t \in transports \ {ptrans[p]} :
          ~Has(AfterRtcp(t, <<Rtcp("SR", "", "", 0, <<ProducerSsrc(p)>>)>>).calls,
               "OnPeerRtcpSenderReport")

====
